---- MODULE Spec2Model ----
(***************************************************************************)
(* Authentication and authorization core of the waiedu backend:            *)
(* token issuance and verification (app/services/jwt_service.py), password *)
(* hashing (app/utils.py), the session resolver                            *)
(* (app/routes/main_student.py) and the route gates (app/routes/course.py, *)
(* app/routes/main_user.py), with the request handlers that use them.      *)
(*                                                                         *)
(* Time is counted in ticks, TicksPerSecond ticks to a second, so that the *)
(* truncation of a datetime to a whole-second "exp" claim is visible.      *)
(***************************************************************************)
EXTENDS Integers, Sequences, FiniteSets, TLC

VARIABLES
    users,        \* the users table: id -> row
    nextId,       \* the users.id sequence
    courses,      \* the courses table: id -> row
    nextCourseId, \* the courses.id sequence
    enrollments,  \* the student_enrollments table: set of rows
    now,          \* the UTC clock, in ticks
    bcryptTruncates, \* the installed bcrypt: TRUE truncates at 72 bytes, FALSE raises
    lastReq,      \* the request handled last
    resp,         \* the response to it
    jw,           \* token scenario: issue, (tamper,) verify
    pw,           \* password scenario: hash, verify, login
    session,      \* session scenario: the token a client kept from a response
    proc,         \* concurrent requests: each worker's position in its handler
    uuids,        \* the number of values uuid.uuid4() has returned
    flaskEnv      \* os.environ.get('FLASK_ENV')

vars == <<users, nextId, courses, nextCourseId, enrollments, now, bcryptTruncates,
          lastReq, resp, jw, pw, session, proc, uuids, flaskEnv>>

----------------------------------------------------------------------------
(* Bounds of the model *)

TicksPerSecond == 2
MaxNow == 6
MaxIssueTime == 1
MaxClock == 1
MaxUsers == 2
MaxCourses == 1
MaxWorkers == 2
MaxEnrollments == 2
MaxUuids == 2

(* Program constants *)

DEFAULT_EXPIRY == 86400
MIN_PASSWORD_LENGTH == 8
BCRYPT_MAX_BYTES == 72
BCRYPT_ROUNDS == 10
RESET_TOKEN_HOURS == 24

JWT_SECRET_KEY == "default_secret_key"
OtherSecret == "another_secret"
Secrets == {JWT_SECRET_KEY, OtherSecret}

UserRole == {"student", "teacher", "parent"}

Min(a, b) == IF a < b THEN a ELSE b

----------------------------------------------------------------------------
(* Claim sets (the payload dict).  keys is the set of keys present; a key  *)
(* that is absent holds the default of its column.                         *)

ClaimKeys == {"userId", "email", "role", "exp", "nbf", "aud"}

NoClaims ==
    [keys |-> {}, userId |-> 0, email |-> "", role |-> "", exp |-> 0, nbf |-> 0, aud |-> ""]

\* {'userId': user.id, 'email': user.email}
LoginClaims(id, email) ==
    [NoClaims EXCEPT !.keys = {"userId", "email"}, !.userId = id, !.email = email]

\* {'userId': new_user.id, 'email': new_user.email, 'role': new_user.role.value}
RegisterClaims(id, email, role) ==
    [NoClaims EXCEPT !.keys = {"userId", "email", "role"},
                     !.userId = id, !.email = email, !.role = role]

\* timegm(dt.utctimetuple()): a datetime as whole seconds, the fraction dropped
ToTimestamp(ticks) == ticks \div TicksPerSecond

\* HMAC-SHA256 over the claims segment: equal only for equal message and key
HS256(claims, secret) == [msg |-> claims, key |-> secret]

NoSig == HS256(NoClaims, "")

\* a string that is no three-part token
MalformedToken == [wf |-> FALSE, claims |-> NoClaims, sig |-> NoSig]

MutGenerateDropsEmail(payload, secret, expiry, t) ==
    LET p == [payload EXCEPT !.keys = (@ \cup {"exp"}) \ {"email"},
                             !.email = "",
                             !.exp = ToTimestamp(t + expiry * TicksPerSecond)]
    IN  [wf |-> TRUE, claims |-> p, sig |-> HS256(p, secret)]

\* generate_jwt(payload, secret, expiry) called at time t
generate_jwt(payload, secret, expiry, t) ==
    LET expiration_time == t + expiry * TicksPerSecond
        p == [payload EXCEPT !.keys = @ \cup {"exp"},
                             !.exp = ToTimestamp(expiration_time)]
    IN  [wf |-> TRUE, claims |-> p, sig |-> HS256(p, secret)]

Decoded(err, payload) == [err |-> err, payload |-> payload]

MutDecodeNoSignatureCheck(token, secret, t) ==
    IF ~token.wf THEN Decoded("DecodeError", NoClaims)
    ELSE IF "exp" \in token.claims.keys /\ token.claims.exp * TicksPerSecond <= t
         THEN Decoded("ExpiredSignatureError", NoClaims)
    ELSE Decoded("", token.claims)

MutDecodeLateExpiry(token, secret, t) ==
    IF ~token.wf THEN Decoded("DecodeError", NoClaims)
    ELSE IF token.sig # HS256(token.claims, secret)
         THEN Decoded("InvalidSignatureError", NoClaims)
    ELSE IF "nbf" \in token.claims.keys /\ token.claims.nbf * TicksPerSecond > t
         THEN Decoded("ImmatureSignatureError", NoClaims)
    ELSE IF "exp" \in token.claims.keys /\ token.claims.exp * TicksPerSecond < t
         THEN Decoded("ExpiredSignatureError", NoClaims)
    ELSE IF "aud" \in token.claims.keys /\ token.claims.aud # ""
         THEN Decoded("InvalidAudienceError", NoClaims)
    ELSE Decoded("", token.claims)

\* decode_jwt(token, secret) called at time t: jwt.decode(token, secret,
\* algorithms=["HS256"]).  err is the exception raised, "" for none.
decode_jwt(token, secret, t) ==
    IF ~token.wf THEN Decoded("DecodeError", NoClaims)
    ELSE IF token.sig # HS256(token.claims, secret)
         THEN Decoded("InvalidSignatureError", NoClaims)
    ELSE IF "nbf" \in token.claims.keys /\ token.claims.nbf * TicksPerSecond > t
         THEN Decoded("ImmatureSignatureError", NoClaims)
    ELSE IF "exp" \in token.claims.keys /\ token.claims.exp * TicksPerSecond <= t
         THEN Decoded("ExpiredSignatureError", NoClaims)
    ELSE IF "aud" \in token.claims.keys /\ token.claims.aud # ""
         THEN Decoded("InvalidAudienceError", NoClaims)
    ELSE Decoded("", token.claims)

----------------------------------------------------------------------------
(* Passwords are sequences of one-byte characters. *)

Rep(c, n) == [i \in 1..n |-> c]

Salts == {"saltA", "saltB"}
RegisterSalts == {"saltA"}

\* bcrypt reads at most the first 72 bytes of the password
Truncate72(password) == SubSeq(password, 1, Min(Len(password), BCRYPT_MAX_BYTES))

BcryptHash(salt, key) == [wf |-> TRUE, cost |-> BCRYPT_ROUNDS, salt |-> salt, key |-> key]

\* a stored string that is no bcrypt hash
CorruptHash == [wf |-> FALSE, cost |-> 0, salt |-> "", key |-> <<>>]

Returned(v) == [raised |-> "", value |-> v]
Raised(e, v) == [raised |-> e, value |-> v]

\* bcrypt.hashpw(password, salt)
hashpw(password, salt, truncates) ==
    IF Len(password) > BCRYPT_MAX_BYTES /\ ~truncates
    THEN Raised("ValueError", CorruptHash)
    ELSE Returned(BcryptHash(salt, Truncate72(password)))

\* hash_password(password), the salt being the one bcrypt.gensalt drew
hash_password(password, salt, truncates) == hashpw(password, salt, truncates)

\* verify_password(plain_password, hashed_password): bcrypt.checkpw
verify_password(plain_password, hashed_password, truncates) ==
    IF ~hashed_password.wf THEN Raised("ValueError", FALSE)
    ELSE LET h == hashpw(plain_password, hashed_password.salt, truncates)
         IN  IF h.raised # "" THEN Raised(h.raised, FALSE)
             ELSE Returned(h.value = hashed_password)

\* validate_password(password): TRUE when it passes
validate_password(password) ==
    /\ Len(password) > 0
    /\ Len(password) >= MIN_PASSWORD_LENGTH

----------------------------------------------------------------------------
(* The session resolver and the gates.                                     *)
(* An Authorization header is absent, or carries a scheme and a token.     *)

NoHeader == [present |-> FALSE, scheme |-> "", token |-> MalformedToken]
Bearer(token) == [present |-> TRUE, scheme |-> "Bearer", token |-> token]
Basic(token) == [present |-> TRUE, scheme |-> "Basic", token |-> token]

(* What authenticate_request returns: a User (isTuple FALSE, user its id),  *)
(* or the tuple utils.error_response builds; raised names an exception that *)
(* left the call instead.                                                   *)
AuthUser(id) ==
    [raised |-> "", isTuple |-> FALSE, status |-> 0, message |-> "", reason |-> "", user |-> id]
AuthError(message, reason, status) ==
    [raised |-> "", isTuple |-> TRUE, status |-> status, message |-> message,
     reason |-> reason, user |-> 0]
AuthRaised(exc) ==
    [raised |-> exc, isTuple |-> FALSE, status |-> 0, message |-> "", reason |-> "", user |-> 0]

MutAuthRevokedByResetRequest(header, usersTable, t) ==
    IF ~header.present \/ header.scheme # "Bearer"
    THEN AuthError("Authorization token is missing or invalid", "", 401)
    ELSE LET d == decode_jwt(header.token, JWT_SECRET_KEY, t)
         IN  IF d.err # "" THEN AuthError("Authentication failed", d.err, 401)
             ELSE IF "userId" \notin d.payload.keys \/ d.payload.userId = 0
                  THEN AuthError("Invalid token payload", "", 401)
             ELSE IF d.payload.userId \notin DOMAIN usersTable
                  THEN AuthError("User not found", "", 404)
             ELSE IF usersTable[d.payload.userId].reset_token # 0
                  THEN AuthError("Authentication failed", "revoked", 401)
             ELSE AuthUser(d.payload.userId)

\* authenticate_request() of app/routes/main_student.py, called at time t
authenticate_request(header, usersTable, t) ==
    IF ~header.present \/ header.scheme # "Bearer"
    THEN AuthError("Authorization token is missing or invalid", "", 401)
    ELSE LET d == decode_jwt(header.token, JWT_SECRET_KEY, t)
         IN  IF d.err # "" THEN AuthError("Authentication failed", d.err, 401)
             ELSE IF "userId" \notin d.payload.keys \/ d.payload.userId = 0
                  THEN AuthError("Invalid token payload", "", 401)
             ELSE IF d.payload.userId \notin DOMAIN usersTable
                  THEN AuthError("User not found", "", 404)
             ELSE AuthUser(d.payload.userId)

MutUtilsAuthTrustsClaims(header, usersTable, t) ==
    IF header.present /\ header.token.wf
          /\ header.token.claims.userId \in DOMAIN usersTable
    THEN AuthUser(header.token.claims.userId)
    ELSE AuthError("Authorization token is missing or invalid", "", 401)

\* utils.authenticate_request(): app/utils.py defines no authenticate_request,
\* so evaluating the attribute raises AttributeError
utils_authenticate_request(header, usersTable, t) == AuthRaised("AttributeError")

(* What a gate does with a request: it returns a response of its own       *)
(* (forward FALSE), calls the wrapped function with the user (forward      *)
(* TRUE), or an exception leaves it (raised).                              *)
GateReturn(a) ==
    [raised |-> "", forward |-> FALSE, user |-> 0, status |-> a.status,
     message |-> a.message, reason |-> a.reason]
GateForward(id) ==
    [raised |-> "", forward |-> TRUE, user |-> id, status |-> 0, message |-> "", reason |-> ""]
GateRaised(exc) ==
    [raised |-> exc, forward |-> FALSE, user |-> 0, status |-> 0, message |-> "", reason |-> ""]

\* f(user, *args, **kwargs): the wrapped function must take the user as its
\* first parameter, or the call raises TypeError
CallWrapped(id, takesUser) ==
    IF takesUser THEN GateForward(id) ELSE GateRaised("TypeError")

\* role_required(*roles)(f), f taking the user or not
role_required(roles, takesUser, header, usersTable, t) ==
    LET auth_result == utils_authenticate_request(header, usersTable, t)
    IN  IF auth_result.raised # "" THEN GateRaised(auth_result.raised)
        ELSE IF auth_result.isTuple THEN GateReturn(auth_result)
        ELSE IF usersTable[auth_result.user].role \notin roles
             THEN GateReturn(AuthError("Permission denied. Insufficient role privileges.", "", 403))
        ELSE CallWrapped(auth_result.user, takesUser)

\* owner_required(f), called with the route's user_id
owner_required(user_id, header, usersTable, t) ==
    LET auth_result == utils_authenticate_request(header, usersTable, t)
    IN  IF auth_result.raised # "" THEN GateRaised(auth_result.raised)
        ELSE IF auth_result.isTuple THEN GateReturn(auth_result)
        ELSE IF auth_result.user # user_id
             THEN GateReturn(AuthError(
                      "Permission denied. You can only modify your own account.", "", 403))
        ELSE GateForward(auth_result.user)

\* the inline gate of the student routes:
\*   auth_result = authenticate_request(); if isinstance(auth_result, tuple): return auth_result
inline_gate(header, usersTable, t) ==
    LET auth_result == authenticate_request(header, usersTable, t)
    IN  IF auth_result.raised # "" THEN GateRaised(auth_result.raised)
        ELSE IF auth_result.isTuple THEN GateReturn(auth_result)
        ELSE GateForward(auth_result.user)

----------------------------------------------------------------------------
(* Requests and responses *)

NoToken == MalformedToken

\* utils.success_response / utils.error_response: (jsonify({...}), status)
Response(route, status, message, reason, handler, token) ==
    [route |-> route, status |-> status, structured |-> TRUE, message |-> message,
     reason |-> reason, handler |-> handler, user |-> 0, raised |-> "", token |-> token,
     data |-> {}, enrollment_count |-> 0, total_revenue |-> 0, courses |-> {},
     debug_token |-> 0]

\* a response whose body carries these columns of a user row
WithUserData(response, columns) == [response EXCEPT !.data = columns]

\* the response of a wrapped function that the gate called with user id
CalledWith(id, response) == [response EXCEPT !.user = id]

\* an exception no handler caught: Flask answers 500 with its own error page
Fault(route, exc, handler) ==
    [route |-> route, status |-> 500, structured |-> FALSE,
     message |-> "Internal Server Error", reason |-> "", handler |-> handler,
     user |-> 0, raised |-> exc, token |-> NoToken, data |-> {},
     enrollment_count |-> 0, total_revenue |-> 0, courses |-> {}, debug_token |-> 0]

\* the response of a request that ended in the gate g
GateResponse(route, g) ==
    IF g.raised # "" THEN Fault(route, g.raised, FALSE)
    ELSE Response(route, g.status, g.message, g.reason, FALSE, NoToken)

NoResponse == Response("none", 0, "", "", FALSE, NoToken)

\* a response whose body carries the courses of these ids
WithCourses(response, ids) == [response EXCEPT !.courses = ids]

\* the response carries a token
IssuesToken(r) == r.token # NoToken

(* The request handled last, as it arrived: its route and route parameter, *)
(* whether its Authorization header was a bearer header, what verifying    *)
(* the bearer token with the server's secret gave ("" for a token that     *)
(* verified), the token's userId claim (0 for none) and the role that user *)
(* had in the users table ("" for no such user); for register and login    *)
(* the email and the password of the body, for register its role too.      *)
IsBearer(header) == header.present /\ header.scheme = "Bearer"

Subject(header) ==
    IF "userId" \in header.token.claims.keys THEN header.token.claims.userId ELSE 0

RoleOfSubject(header, usersTable) ==
    IF Subject(header) \in DOMAIN usersTable THEN usersTable[Subject(header)].role ELSE ""

\* the JSON body of update_user: the keys present and their values
UpdateData(keys, email, password, current_password) ==
    [keys |-> keys, email |-> email, password |-> password,
     current_password |-> current_password, confirm_password |-> <<>>,
     name |-> "Updated Name", gender |-> ""]

NoData == UpdateData({}, "", <<>>, <<>>)

Request(route, header, param) ==
    [route |-> route, param |-> param, data |-> NoData,
     bearer |-> IsBearer(header),
     tokenError |-> IF IsBearer(header)
                    THEN decode_jwt(header.token, JWT_SECRET_KEY, now).err
                    ELSE "NoBearerToken",
     subject |-> Subject(header),
     subjectRole |-> RoleOfSubject(header, users),
     email |-> "", password |-> <<>>, role |-> ""]

CredentialsRequest(route, email, password) ==
    [Request(route, NoHeader, 0) EXCEPT !.email = email, !.password = password]

NoRequest ==
    [route |-> "none", param |-> 0, bearer |-> FALSE, tokenError |-> "NoBearerToken",
     subject |-> 0, subjectRole |-> "", email |-> "", password |-> <<>>, role |-> "",
     data |-> NoData]

(* The headers a client may send at time t: none, a non-bearer scheme, and *)
(* bearer tokens: the token login hands out now for each user id (ids not  *)
(* in the table included), one handed out DEFAULT_EXPIRY seconds ago, one  *)
(* signed with another secret, one without userId, one with userId 0, and  *)
(* a string that is no token.                                              *)
GhostEmail == "nobody@example.com"

EmailOf(id, usersTable) ==
    IF id \in DOMAIN usersTable THEN usersTable[id].email ELSE GhostEmail

LoginToken(id, usersTable, secret, t) ==
    generate_jwt(LoginClaims(id, EmailOf(id, usersTable)), secret, DEFAULT_EXPIRY, t)

PresentedTokens(usersTable, t) ==
    {LoginToken(id, usersTable, JWT_SECRET_KEY, t) : id \in 0..(MaxUsers + 1)}
      \cup {LoginToken(1, usersTable, JWT_SECRET_KEY, t - DEFAULT_EXPIRY * TicksPerSecond),
            LoginToken(1, usersTable, OtherSecret, t),
            generate_jwt([NoClaims EXCEPT !.keys = {"email"}, !.email = GhostEmail],
                         JWT_SECRET_KEY, DEFAULT_EXPIRY, t),
            MalformedToken}

Headers(usersTable, t) ==
    {NoHeader, Basic(LoginToken(1, usersTable, JWT_SECRET_KEY, t))}
      \cup {Bearer(tok) : tok \in PresentedTokens(usersTable, t)}

----------------------------------------------------------------------------
(* Inputs of register and login *)

Emails == {"a@b.com", "c@d.org"}
EmailInputs == Emails \cup {"", "not-an-email"}

\* validate_email(email): TRUE when EMAIL_REGEX matches
validate_email(email) == email \in Emails

Password1 == Rep("a", MIN_PASSWORD_LENGTH)
Password2 == Rep("b", MIN_PASSWORD_LENGTH)
ShortPassword == Rep("a", MIN_PASSWORD_LENGTH - 1)
RegisterPasswords == {Password1, ShortPassword, <<>>}
LoginPasswords == {Password1, Password2, <<>>}

AbsentRole == "<absent>"

MutValidRolesWithAdmin == {"student", "teacher", "parent", "admin"}

\* register: if role not in ['student', 'teacher', 'parent']
ValidRoles == {"student", "teacher", "parent"}
RoleInputs == UserRole \cup {"admin", AbsentRole}

\* a reset_token is the uuid drawn for the user, 0 for None
UserRow(email, password, role) ==
    [email |-> email, password |-> password, role |-> role, is_verified |-> FALSE,
     reset_token |-> 0, reset_token_expiry |-> 0, name |-> "Name", gender |-> ""]

\* the columns of the users table
UserColumns ==
    {"id", "name", "email", "password", "phone", "birth_date", "gender", "role", "grade",
     "school", "teaching_subject", "child_grade", "is_verified", "verification_token",
     "reset_token", "reset_token_expiry", "created_at", "updated_at"}

MutSerializeEveryColumn == UserColumns

\* serialize_user(user): the columns of the row it puts into the dictionary
serialize_user == UserColumns \ {"password"}

\* all_fields of get_users and get_user
all_fields ==
    {"id", "name", "email", "phone", "birth_date", "gender", "role", "grade", "school",
     "teaching_subject", "child_grade", "is_verified", "created_at", "updated_at"}

EmailTaken(email, usersTable) == \E id \in DOMAIN usersTable : usersTable[id].email = email

UserByEmail(email, usersTable) ==
    CHOOSE id \in DOMAIN usersTable : usersTable[id].email = email

Insert(table, id, row) == [k \in DOMAIN table \cup {id} |-> IF k = id THEN row ELSE table[k]]
Remove(table, id) == [k \in DOMAIN table \ {id} |-> table[k]]

Frame == UNCHANGED <<bcryptTruncates, jw, pw, session, proc, uuids, flaskEnv>>

\* POST /main/auth/register
Register(email, password, roleInput, salt) ==
    LET route == "register"
        role == IF roleInput = AbsentRole THEN "student" ELSE roleInput
        h == hash_password(password, salt, bcryptTruncates)
        created == /\ validate_email(email)
                   /\ validate_password(password)
                   /\ role \in ValidRoles
                   /\ role \in UserRole
                   /\ ~EmailTaken(email, users)
                   /\ h.raised = ""
    IN  /\ created => nextId <= MaxUsers
        /\ lastReq' = [CredentialsRequest(route, email, password) EXCEPT !.role = roleInput]
        /\ IF email = "" THEN
               /\ resp' = Response(route, 400, "Email is required", "", TRUE, NoToken)
               /\ UNCHANGED <<users, nextId>>
           ELSE IF ~validate_email(email) THEN
               /\ resp' = Response(route, 400, "Invalid email format", "", TRUE, NoToken)
               /\ UNCHANGED <<users, nextId>>
           ELSE IF Len(password) = 0 THEN
               /\ resp' = Response(route, 400, "Password is required", "", TRUE, NoToken)
               /\ UNCHANGED <<users, nextId>>
           ELSE IF ~validate_password(password) THEN
               /\ resp' = Response(route, 400, "Password must be at least 8 characters long",
                                   "", TRUE, NoToken)
               /\ UNCHANGED <<users, nextId>>
           ELSE IF role \notin ValidRoles THEN
               /\ resp' = Response(route, 400, "Role must be one of: student, teacher, parent",
                                   "", TRUE, NoToken)
               /\ UNCHANGED <<users, nextId>>
           ELSE IF EmailTaken(email, users) THEN
               /\ resp' = Response(route, 409, "Email already registered", "", TRUE, NoToken)
               /\ UNCHANGED <<users, nextId>>
           \* user_role = UserRole[role]
           ELSE IF role \notin UserRole THEN
               /\ resp' = Response(route, 500, "Error during registration", "KeyError",
                                   TRUE, NoToken)
               /\ UNCHANGED <<users, nextId>>
           ELSE IF h.raised # "" THEN
               /\ resp' = Response(route, 500, "Error during registration", h.raised,
                                   TRUE, NoToken)
               /\ UNCHANGED <<users, nextId>>
           ELSE
               /\ users' = Insert(users, nextId, UserRow(email, h.value, role))
               /\ nextId' = nextId + 1
               /\ resp' = WithUserData(
                              Response(route, 201, "Registration successful", "", TRUE,
                                       generate_jwt(RegisterClaims(nextId, email, role),
                                                    JWT_SECRET_KEY, DEFAULT_EXPIRY, now)),
                              serialize_user)
        /\ UNCHANGED <<courses, nextCourseId, enrollments, now>>
        /\ Frame

MutLoginSkipsVerify(email, password, usersTable, truncates, t) ==
    IF EmailTaken(email, usersTable)
    THEN Response("login", 200, "Authentication successful", "", TRUE,
                  generate_jwt(LoginClaims(UserByEmail(email, usersTable), email),
                               JWT_SECRET_KEY, DEFAULT_EXPIRY, t))
    ELSE Response("login", 401, "Invalid email or password", "", TRUE, NoToken)

\* login() of app/routes/main_auth.py against a users table, at time t
login(email, password, usersTable, truncates, t) ==
    LET route == "login"
    IN  IF email = "" \/ Len(password) = 0
        THEN Response(route, 400, "Email and password are required", "", TRUE, NoToken)
        ELSE IF ~EmailTaken(email, usersTable)
        THEN Response(route, 401, "Invalid email or password", "", TRUE, NoToken)
        ELSE LET id == UserByEmail(email, usersTable)
                 v == verify_password(password, usersTable[id].password, truncates)
             IN  IF v.raised # ""
                 THEN Response(route, 500, "Error during authentication", v.raised, TRUE, NoToken)
                 ELSE IF ~v.value
                 THEN Response(route, 401, "Invalid email or password", "", TRUE, NoToken)
                 ELSE WithUserData(
                          Response(route, 200, "Authentication successful", "", TRUE,
                                   generate_jwt(LoginClaims(id, email), JWT_SECRET_KEY,
                                                DEFAULT_EXPIRY, t)),
                          serialize_user)

\* POST /main/auth/login
Login(email, password) ==
    /\ lastReq' = CredentialsRequest("login", email, password)
    /\ resp' = login(email, password, users, bcryptTruncates, now)
    /\ UNCHANGED <<users, nextId, courses, nextCourseId, enrollments, now>>
    /\ Frame

\* str(uuid.uuid4()) after drawn earlier calls: a value none of them returned
Uuid(drawn) == drawn + 1

\* the values FLASK_ENV may have
FlaskEnvs == {"production", "development"}

\* response.update(debug_info): {'debug_token': reset_token} in development
WithDebugInfo(response, reset_token, env) ==
    [response EXCEPT !.debug_token = IF env = "development" THEN reset_token ELSE 0]

\* forgot_password(): the response, the users table and the number of uuids
\* drawn it leaves behind
forgot_password(email, usersTable, drawn, env, t) ==
    LET route == "forgot_password"
        kept(r) == [resp |-> r, users |-> usersTable, uuids |-> drawn]
        answer == Response(route, 200,
                     "If an account with this email exists, a reset link has been sent.",
                     "", TRUE, NoToken)
    IN  IF email = ""
        THEN kept(Response(route, 400, "Email is required", "", TRUE, NoToken))
        ELSE IF ~validate_email(email)
        THEN kept(Response(route, 400, "Invalid email format", "", TRUE, NoToken))
        ELSE IF EmailTaken(email, usersTable)
        THEN LET id == UserByEmail(email, usersTable)
                 reset_token == Uuid(drawn)
             IN  [resp |-> WithDebugInfo(answer, reset_token, env),
                  users |-> [usersTable EXCEPT
                               ![id].reset_token = reset_token,
                               ![id].reset_token_expiry =
                                   t + RESET_TOKEN_HOURS * 3600 * TicksPerSecond],
                  uuids |-> drawn + 1]
        ELSE kept(answer)

\* POST /main/auth/forgot-password
ForgotPassword(email) ==
    LET r == forgot_password(email, users, uuids, flaskEnv, now)
    IN  /\ r.uuids <= MaxUuids
        /\ lastReq' = CredentialsRequest("forgot_password", email, <<>>)
        /\ resp' = r.resp
        /\ users' = r.users
        /\ uuids' = r.uuids
        /\ UNCHANGED <<nextId, courses, nextCourseId, enrollments, now>>
        /\ UNCHANGED <<bcryptTruncates, jw, pw, session, proc, flaskEnv>>

\* the passwords a reset request carries: password and confirmPassword
ResetPasswords ==
    {<<Password2, Password2>>, <<Password2, Password1>>, <<ShortPassword, ShortPassword>>}

\* a reset that leaves the token in the row
MutResetKeepsToken(row, hashed) == [row EXCEPT !.password = hashed]

\* user.password = utils.hash_password(password); user.reset_token = None;
\* user.reset_token_expiry = None
ResetRow(row, hashed) ==
    [row EXCEPT !.password = hashed, !.reset_token = 0, !.reset_token_expiry = 0]

\* POST /main/auth/reset-password; token 0 for none given
ResetPassword(token, password, confirm_password, salt) ==
    LET route == "reset_password"
        found == {id \in DOMAIN users : /\ users[id].reset_token = token
                                        /\ users[id].reset_token_expiry > now}
        h == hash_password(password, salt, bcryptTruncates)
    IN  /\ lastReq' = [CredentialsRequest(route, "", password) EXCEPT !.param = token]
        /\ IF token = 0 THEN
               /\ resp' = Response(route, 400, "Token is required", "", TRUE, NoToken)
               /\ UNCHANGED users
           ELSE IF Len(password) = 0 THEN
               /\ resp' = Response(route, 400, "Password is required", "", TRUE, NoToken)
               /\ UNCHANGED users
           ELSE IF ~validate_password(password) THEN
               /\ resp' = Response(route, 400, "Password must be at least 8 characters long",
                                   "", TRUE, NoToken)
               /\ UNCHANGED users
           ELSE IF password # confirm_password THEN
               /\ resp' = Response(route, 400, "Passwords do not match", "", TRUE, NoToken)
               /\ UNCHANGED users
           ELSE IF found = {} THEN
               /\ resp' = Response(route, 400, "Invalid or expired token", "", TRUE, NoToken)
               /\ UNCHANGED users
           ELSE IF h.raised # "" THEN
               /\ resp' = Response(route, 500,
                                   "Password reset failed. Please try again later.",
                                   "", TRUE, NoToken)
               /\ UNCHANGED users
           ELSE
               /\ resp' = Response(route, 200, "Password has been reset successfully",
                                   "", TRUE, NoToken)
               /\ users' = LET id == CHOOSE u \in found : TRUE
                           IN  [users EXCEPT ![id] = ResetRow(@, h.value)]
        /\ UNCHANGED <<nextId, courses, nextCourseId, enrollments, now>>
        /\ Frame

----------------------------------------------------------------------------
(* Routes behind owner_required (app/routes/main_user.py) *)

\* get_users and get_user call utils.authenticate_request() themselves
utils_gate(header, usersTable, t) ==
    LET auth_result == utils_authenticate_request(header, usersTable, t)
    IN  IF auth_result.raised # "" THEN GateRaised(auth_result.raised)
        ELSE IF auth_result.isTuple THEN GateReturn(auth_result)
        ELSE GateForward(auth_result.user)

\* GET /main/users
GetUsers(header) ==
    LET route == "get_users"
        g == utils_gate(header, users, now)
    IN  /\ lastReq' = Request(route, header, 0)
        /\ resp' = IF ~g.forward THEN GateResponse(route, g)
                   ELSE CalledWith(g.user,
                            WithUserData(Response(route, 200, "Users retrieved successfully",
                                                  "", TRUE, NoToken),
                                         all_fields))
        /\ UNCHANGED <<users, nextId, courses, nextCourseId, enrollments, now>>
        /\ Frame

\* GET /main/users/<user_id>
GetUser(header, user_id) ==
    LET route == "get_user"
        g == utils_gate(header, users, now)
    IN  /\ lastReq' = Request(route, header, user_id)
        /\ resp' = IF ~g.forward THEN GateResponse(route, g)
                   ELSE CalledWith(g.user,
                            IF user_id \notin DOMAIN users
                            THEN Response(route, 404, "User not found", "", TRUE, NoToken)
                            ELSE WithUserData(
                                     Response(route, 200, "User retrieved successfully",
                                              "", TRUE, NoToken),
                                     all_fields))
        /\ UNCHANGED <<users, nextId, courses, nextCourseId, enrollments, now>>
        /\ Frame

UpdateInputs ==
    {UpdateData({"name"}, "", <<>>, <<>>),
     UpdateData({"email"}, "c@d.org", <<>>, <<>>),
     UpdateData({"password", "current_password"}, "", Password2, Password1)}

\* the members of UserGender
UserGender == {"male", "female", "other"}

\* changes that are committed although the handler fails
MutAutocommit(usersTable, pending) == pending

\* the handler returns without db.session.commit(), or its except branch
\* calls db.session.rollback(): the pending changes of the session are dropped
Discarded(usersTable, pending) == usersTable

\* the body of update_user(current_user, user_id): the response and the users table after
update_user(current_user, user_id, data, usersTable, salt, truncates) ==
    LET route == "update_user"
        user == usersTable[user_id]
        named == IF "name" \in data.keys THEN [user EXCEPT !.name = data.name] ELSE user
        gendered == IF "gender" \in data.keys
                    THEN [named EXCEPT !.gender = data.gender] ELSE named
        Pending(row) == [usersTable EXCEPT ![user_id] = row]
        Fail(r, row) == [response |-> r, users |-> Discarded(usersTable, Pending(row))]
        Done(row) ==
            [response |-> WithUserData(
                              Response(route, 200, "User updated successfully", "",
                                       TRUE, NoToken),
                              serialize_user \ {"verification_token"}),
             users |-> Pending(row)]
    IN  IF user_id \notin DOMAIN usersTable
        THEN [response |-> Response(route, 404, "User not found", "", TRUE, NoToken),
              users |-> usersTable]
        ELSE IF "gender" \in data.keys /\ data.gender # "" /\ data.gender \notin UserGender
        THEN Fail(Response(route, 400, "Invalid gender value", "", TRUE, NoToken), named)
        ELSE IF "email" \in data.keys
        \* current_user.role == UserRole.admin: UserRole has no member admin
        THEN Fail(Response(route, 500, "Error updating user", "AttributeError", TRUE, NoToken),
                  gendered)
        ELSE IF "password" \notin data.keys
        THEN Done(gendered)
        ELSE IF "current_password" \notin data.keys
        THEN Fail(Response(route, 400, "Current password is required to update password",
                           "", TRUE, NoToken), gendered)
        ELSE LET v == verify_password(data.current_password, usersTable[user_id].password,
                                      truncates)
                 h == hash_password(data.password, salt, truncates)
             IN  IF v.raised # ""
                 THEN Fail(Response(route, 500, "Error updating user", v.raised, TRUE, NoToken),
                           gendered)
                 ELSE IF ~v.value
                 THEN Fail(Response(route, 401, "Current password is incorrect", "",
                                    TRUE, NoToken), gendered)
                 ELSE IF Len(data.password) = 0
                 THEN Fail(Response(route, 400, "Password is required", "", TRUE, NoToken),
                           gendered)
                 ELSE IF ~validate_password(data.password)
                 THEN Fail(Response(route, 400, "Password must be at least 8 characters long",
                                    "", TRUE, NoToken), gendered)
                 ELSE IF "confirm_password" \in data.keys
                         /\ data.password # data.confirm_password
                 THEN Fail(Response(route, 400, "Passwords do not match", "", TRUE, NoToken),
                           gendered)
                 ELSE IF h.raised # ""
                 THEN Fail(Response(route, 500, "Error updating user", h.raised, TRUE, NoToken),
                           gendered)
                 ELSE Done([gendered EXCEPT !.password = h.value])

\* PUT /main/users/<user_id>
UpdateUser(header, user_id, data, salt) ==
    LET g == owner_required(user_id, header, users, now)
        r == update_user(g.user, user_id, data, users, salt, bcryptTruncates)
    IN  /\ lastReq' = [Request("update_user", header, user_id) EXCEPT !.data = data]
        /\ IF g.forward
           THEN resp' = CalledWith(g.user, r.response) /\ users' = r.users
           ELSE resp' = GateResponse("update_user", g) /\ users' = users
        /\ UNCHANGED <<nextId, courses, nextCourseId, enrollments, now>>
        /\ Frame

\* the rows that referred to a deleted user keep NULL (0) in its place
Nullify(id, deleted) == IF id = deleted THEN 0 ELSE id

\* DELETE /main/users/<user_id>
DeleteUser(header, user_id) ==
    LET route == "delete_user"
        g == owner_required(user_id, header, users, now)
    IN  /\ lastReq' = Request(route, header, user_id)
        /\ IF ~g.forward THEN
               /\ resp' = GateResponse(route, g)
               /\ UNCHANGED <<users, courses, enrollments>>
           ELSE IF user_id \notin DOMAIN users THEN
               /\ resp' = CalledWith(g.user,
                              Response(route, 404, "User not found", "", TRUE, NoToken))
               /\ UNCHANGED <<users, courses, enrollments>>
           ELSE
               /\ users' = Remove(users, user_id)
               /\ courses' = [c \in DOMAIN courses |->
                                [courses[c] EXCEPT !.teacher_user_id = Nullify(@, user_id)]]
               /\ enrollments' = {[e EXCEPT !.student_user_id = Nullify(@, user_id)] :
                                     e \in enrollments}
               /\ resp' = CalledWith(g.user,
                     Response(route, 200, "User deleted successfully", "", TRUE, NoToken))
        /\ UNCHANGED <<nextId, nextCourseId, now>>
        /\ Frame

----------------------------------------------------------------------------
(* Routes behind role_required (app/routes/course.py) *)

Prices == {0, 100000}

CourseRow(teacher, price, is_published) ==
    [teacher_user_id |-> teacher, price |-> price, is_published |-> is_published]

EnrollmentRow(id, student, course_id, price) ==
    [id |-> id, student_user_id |-> student, course_id |-> course_id,
     price_at_enrollment |-> price, currency_at_enrollment |-> "VND"]

\* the next value of the student_enrollments.id sequence; no row is ever deleted
NextEnrollmentId(rows) == Cardinality(rows) + 1

\* sum(enrollment.price_at_enrollment for enrollment in enrollments)
RECURSIVE SumPrices(_)
SumPrices(rows) ==
    IF rows = {} THEN 0
    ELSE LET e == CHOOSE x \in rows : TRUE
         IN  e.price_at_enrollment + SumPrices(rows \ {e})

\* the analytics_data of get_course_analytics
Analytics(course_id, rows) ==
    LET ofCourse == {e \in rows : e.course_id = course_id}
    IN  [enrollment_count |-> Cardinality(ofCourse), total_revenue |-> SumPrices(ofCourse)]

WithAnalytics(response, a) ==
    [response EXCEPT !.enrollment_count = a.enrollment_count,
                     !.total_revenue = a.total_revenue]

\* POST /main/courses
CreateCourse(header, price, is_published) ==
    LET route == "create_course"
        g == role_required({"teacher"}, TRUE, header, users, now)
    IN  /\ g.forward /\ price >= 0 => nextCourseId <= MaxCourses
        /\ lastReq' = Request(route, header, 0)
        /\ IF ~g.forward THEN
               /\ resp' = GateResponse(route, g)
               /\ UNCHANGED <<courses, nextCourseId>>
           ELSE IF price < 0 THEN
               /\ resp' = CalledWith(g.user,
                     Response(route, 400, "Price cannot be negative", "", TRUE, NoToken))
               /\ UNCHANGED <<courses, nextCourseId>>
           ELSE
               /\ courses' = Insert(courses, nextCourseId, CourseRow(g.user, price, is_published))
               /\ nextCourseId' = nextCourseId + 1
               /\ resp' = CalledWith(g.user,
                     Response(route, 201, "Course created successfully", "", TRUE, NoToken))
        /\ UNCHANGED <<users, nextId, enrollments, now>>
        /\ Frame

\* GET /main/courses/<course_id>/analytics
GetCourseAnalytics(header, course_id) ==
    LET route == "get_course_analytics"
        g == role_required({"teacher", "admin"}, TRUE, header, users, now)
    IN  /\ lastReq' = Request(route, header, course_id)
        /\ resp' =
             IF ~g.forward THEN GateResponse(route, g)
             ELSE CalledWith(g.user,
                  IF course_id \notin DOMAIN courses
                  THEN Response(route, 404, "Course not found", "", TRUE, NoToken)
                  ELSE IF users[g.user].role = "teacher"
                            /\ courses[course_id].teacher_user_id # g.user
                  THEN Response(route, 403,
                     "Permission denied. You can only view analytics for your own courses.",
                     "", TRUE, NoToken)
                  ELSE WithAnalytics(
                           Response(route, 200, "Course analytics retrieved successfully", "",
                                    TRUE, NoToken),
                           Analytics(course_id, enrollments)))
        /\ UNCHANGED <<users, nextId, courses, nextCourseId, enrollments, now>>
        /\ Frame

\* PUT /main/courses/<course_id> with body {"price": price, "is_published": is_published}
UpdateCourse(header, course_id, price, is_published) ==
    LET route == "update_course"
        g == role_required({"teacher"}, TRUE, header, users, now)
    IN  /\ lastReq' = Request(route, header, course_id)
        /\ IF ~g.forward THEN
               /\ resp' = GateResponse(route, g)
               /\ UNCHANGED courses
           ELSE IF course_id \notin DOMAIN courses THEN
               /\ resp' = CalledWith(g.user,
                     Response(route, 404, "Course not found", "", TRUE, NoToken))
               /\ UNCHANGED courses
           ELSE IF courses[course_id].teacher_user_id # g.user THEN
               /\ resp' = CalledWith(g.user,
                     Response(route, 403,
                              "Permission denied. You can only update your own courses",
                              "", TRUE, NoToken))
               /\ UNCHANGED courses
           ELSE IF price < 0 THEN
               /\ resp' = CalledWith(g.user,
                     Response(route, 400, "Price cannot be negative", "", TRUE, NoToken))
               /\ UNCHANGED courses
           ELSE
               /\ courses' = [courses EXCEPT ![course_id].price = price,
                                             ![course_id].is_published = is_published]
               /\ resp' = CalledWith(g.user,
                     Response(route, 200, "Course updated successfully", "", TRUE, NoToken))
        /\ UNCHANGED <<users, nextId, nextCourseId, enrollments, now>>
        /\ Frame

\* DELETE /main/courses/<course_id>; the course's enrollments go with it
\* (cascade="all, delete-orphan")
DeleteCourse(header, course_id) ==
    LET route == "delete_course"
        g == role_required({"teacher"}, TRUE, header, users, now)
    IN  /\ lastReq' = Request(route, header, course_id)
        /\ IF ~g.forward THEN
               /\ resp' = GateResponse(route, g)
               /\ UNCHANGED <<courses, enrollments>>
           ELSE IF course_id \notin DOMAIN courses THEN
               /\ resp' = CalledWith(g.user,
                     Response(route, 404, "Course not found", "", TRUE, NoToken))
               /\ UNCHANGED <<courses, enrollments>>
           ELSE IF courses[course_id].teacher_user_id # g.user THEN
               /\ resp' = CalledWith(g.user,
                     Response(route, 403,
                              "Permission denied. You can only delete your own courses",
                              "", TRUE, NoToken))
               /\ UNCHANGED <<courses, enrollments>>
           ELSE
               /\ courses' = Remove(courses, course_id)
               /\ enrollments' = {e \in enrollments : e.course_id # course_id}
               /\ resp' = CalledWith(g.user,
                     Response(route, 200, "Course deleted successfully", "", TRUE, NoToken))
        /\ UNCHANGED <<users, nextId, nextCourseId, now>>
        /\ Frame

\* Course.query.filter_by(is_published=True).all()
PublishedCourses(coursesTable) ==
    {c \in DOMAIN coursesTable : coursesTable[c].is_published}

\* GET /main/courses: get_courses calls utils.authenticate_request() itself
GetCourses(header) ==
    LET route == "get_courses"
        g == utils_gate(header, users, now)
    IN  /\ lastReq' = Request(route, header, 0)
        /\ resp' = IF ~g.forward THEN GateResponse(route, g)
                   ELSE CalledWith(g.user,
                            WithCourses(Response(route, 200, "Courses retrieved successfully",
                                                 "", TRUE, NoToken),
                                        PublishedCourses(courses)))
        /\ UNCHANGED <<users, nextId, courses, nextCourseId, enrollments, now>>
        /\ Frame

\* GET /main/courses/<course_id>: get_course calls utils.authenticate_request() itself
GetCourse(header, course_id) ==
    LET route == "get_course"
        g == utils_gate(header, users, now)
    IN  /\ lastReq' = Request(route, header, course_id)
        /\ resp' =
             IF ~g.forward THEN GateResponse(route, g)
             ELSE CalledWith(g.user,
                  IF course_id \notin DOMAIN courses
                  THEN Response(route, 404, "Course not found", "", TRUE, NoToken)
                  ELSE IF ~courses[course_id].is_published
                          /\ (users[g.user].role # "teacher"
                              \/ courses[course_id].teacher_user_id # g.user)
                  THEN Response(route, 404, "Course not found or not available", "",
                                TRUE, NoToken)
                  ELSE WithCourses(Response(route, 200, "Course retrieved successfully", "",
                                            TRUE, NoToken),
                                   {course_id}))
        /\ UNCHANGED <<users, nextId, courses, nextCourseId, enrollments, now>>
        /\ Frame

\* POST /main/courses/<course_id>/enroll: enroll_in_course(course_id) takes no
\* user, yet role_required('student') calls it with one
CourseEnroll(header, course_id) ==
    LET route == "course_enroll"
        g == role_required({"student"}, FALSE, header, users, now)
    IN  /\ lastReq' = Request(route, header, course_id)
        /\ resp' = GateResponse(route, g)
        /\ UNCHANGED <<users, nextId, courses, nextCourseId, enrollments, now>>
        /\ Frame

----------------------------------------------------------------------------
(* Routes that call authenticate_request inline (app/routes/main_student.py) *)

\* GET /main/student/enrollments
GetEnrollments(header) ==
    LET route == "get_enrollments"
        g == inline_gate(header, users, now)
    IN  /\ lastReq' = Request(route, header, 0)
        /\ resp' = IF ~g.forward THEN GateResponse(route, g)
                   ELSE CalledWith(g.user,
                            Response(route, 200, "Enrollments retrieved successfully", "",
                                     TRUE, NoToken))
        /\ UNCHANGED <<users, nextId, courses, nextCourseId, enrollments, now>>
        /\ Frame

\* GET /main/student/courses
GetAvailableCourses(header) ==
    LET route == "get_available_courses"
        g == inline_gate(header, users, now)
    IN  /\ lastReq' = Request(route, header, 0)
        /\ resp' = IF ~g.forward THEN GateResponse(route, g)
                   ELSE CalledWith(g.user,
                            WithCourses(Response(route, 200, "Courses retrieved successfully",
                                                 "", TRUE, NoToken),
                                        PublishedCourses(courses)))
        /\ UNCHANGED <<users, nextId, courses, nextCourseId, enrollments, now>>
        /\ Frame

\* POST /main/student/enroll with body {"course_id": course_id}; 0 for none given
StudentEnroll(header, course_id) ==
    LET route == "student_enroll"
        g == inline_gate(header, users, now)
    IN  /\ lastReq' = Request(route, header, course_id)
        /\ IF ~g.forward THEN
               /\ resp' = GateResponse(route, g)
               /\ UNCHANGED enrollments
           ELSE IF course_id = 0 THEN
               /\ resp' = CalledWith(g.user,
                     Response(route, 400, "Course ID is required", "", TRUE, NoToken))
               /\ UNCHANGED enrollments
           ELSE IF course_id \notin DOMAIN courses \/ ~courses[course_id].is_published THEN
               /\ resp' = CalledWith(g.user,
                     Response(route, 404, "Course not found or not available", "",
                              TRUE, NoToken))
               /\ UNCHANGED enrollments
           ELSE IF \E e \in enrollments :
                      e.student_user_id = g.user /\ e.course_id = course_id THEN
               /\ resp' = CalledWith(g.user,
                     Response(route, 409, "Student is already enrolled in this course",
                              "", TRUE, NoToken))
               /\ UNCHANGED enrollments
           ELSE
               /\ enrollments' = enrollments \cup
                     {EnrollmentRow(NextEnrollmentId(enrollments), g.user, course_id,
                                    courses[course_id].price)}
               /\ resp' = CalledWith(g.user,
                     Response(route, 201, "Enrollment successful", "", TRUE, NoToken))
        /\ UNCHANGED <<users, nextId, courses, nextCourseId, now>>
        /\ Frame

----------------------------------------------------------------------------
(* Token scenario: a claim set is signed at some time with some lifetime,  *)
(* its claims segment may be altered on the way, and it is verified later, *)
(* by decode_jwt with some secret and by the session resolver.             *)

\* an "exp" the caller put into the payload itself
StaleExp == 1000

ClaimSets ==
    {[keys |-> ks,
      userId |-> IF "userId" \in ks THEN u ELSE 0,
      email |-> IF "email" \in ks THEN "a@b.com" ELSE "",
      role |-> "",
      exp |-> IF "exp" \in ks THEN StaleExp ELSE 0,
      nbf |-> IF "nbf" \in ks THEN n ELSE 0,
      aud |-> IF "aud" \in ks THEN "api" ELSE ""] :
        ks \in SUBSET {"userId", "email", "exp", "nbf", "aud"}, u \in {1, 2}, n \in {0, 2}}

TTLs == {-1, 0, 1}

\* what altering bytes of the claims segment can turn a token into: other
\* claims under the old signature, or a string that no longer parses
Tamperings(token) ==
    {[token EXCEPT !.claims.keys = @ \cup {"userId"}, !.claims.userId = 3 - @],
     [token EXCEPT !.claims.exp = @ + DEFAULT_EXPIRY],
     [token EXCEPT !.claims.keys = @ \ {"nbf", "aud"}, !.claims.nbf = 0, !.claims.aud = ""],
     MalformedToken} \ {token}

\* the users table of the scenario: user 1 is registered
ScenarioUsers ==
    Insert([k \in {} |-> 0], 1, UserRow("a@b.com", BcryptHash("saltA", Password1), "student"))

JwIdle ==
    [phase |-> "idle", c |-> NoClaims, s |-> "", ttl |-> 0, issuedAt |-> 0,
     token |-> MalformedToken, tampered |-> FALSE, s2 |-> "", verifiedAt |-> 0,
     result |-> Decoded("", NoClaims), auth |-> AuthRaised("")]
----------------------------------------------------------------------------
(* Password scenario: a plaintext is hashed as register does, the stored   *)
(* string may get corrupted in the table, and a plaintext is then verified *)
(* against it, by verify_password and by login.                            *)

LongPrefix == Rep("a", BCRYPT_MAX_BYTES)

Plaintexts ==
    {Password1, Password2, LongPrefix, LongPrefix \o <<"b">>, LongPrefix \o <<"c">>}

PwIdle ==
    [phase |-> "idle", p2 |-> <<>>, stored |-> CorruptHash, corrupted |-> FALSE,
     p1 |-> <<>>, v |-> Returned(FALSE), login |-> NoResponse,
     loginUnknown |-> NoResponse, authLogin |-> NoResponse, authLoginUnknown |-> NoResponse]

PwFrame ==
    UNCHANGED <<users, nextId, courses, nextCourseId, enrollments, now, bcryptTruncates,
                lastReq, resp, jw, session, proc, uuids, flaskEnv>>

\* hash_password(p2) with the salt gensalt drew
PwHash(salt) ==
    /\ pw.phase = "start"
    /\ LET h == hash_password(pw.p2, salt, bcryptTruncates)
       IN  pw' = IF h.raised # ""
                 THEN [pw EXCEPT !.phase = "hash raised"]
                 ELSE [pw EXCEPT !.phase = "stored", !.stored = h.value]
    /\ PwFrame

\* the stored string is damaged: it is no bcrypt hash any more
PwCorrupt ==
    /\ pw.phase = "stored"
    /\ ~pw.corrupted
    /\ pw' = [pw EXCEPT !.stored = CorruptHash, !.corrupted = TRUE]
    /\ PwFrame

\* the users table whose one user has the stored string as password
PwUsers == Insert([k \in {} |-> 0], 1, UserRow("a@b.com", pw.stored, "student"))

\* werkzeug's generate_password_hash / check_password_hash: a salted digest
\* of the whole password; a stored string that is no hash checks as False
generate_password_hash(password, salt) == BcryptHash(salt, password)
check_password_hash(pwhash, password) ==
    pwhash.wf /\ pwhash = generate_password_hash(password, pwhash.salt)

\* the Firestore users collection whose one document has the stored string
PwDocuments ==
    {[username |-> "a@b.com",
      password |-> IF pw.corrupted THEN CorruptHash
                   ELSE generate_password_hash(pw.p2, pw.stored.salt)]}

\* login() of app/routes/auth.py against the Firestore users collection
auth_login(username, password, documents) ==
    LET route == "auth_login"
        found == {d \in documents : d.username = username}
    IN  IF username = "" \/ Len(password) = 0
        THEN Response(route, 400, "Username and password are required", "", TRUE, NoToken)
        ELSE IF found = {}
        THEN Response(route, 401, "Invalid username or password", "", TRUE, NoToken)
        ELSE IF ~check_password_hash((CHOOSE d \in found : TRUE).password, password)
        THEN Response(route, 401, "Invalid username or password", "", TRUE, NoToken)
        ELSE Response(route, 200, "Authentication successful", "", TRUE, NoToken)

\* verify_password(p1, stored), and the logins with p1: as that user, and
\* under an email no user has
PwVerify(p1) ==
    /\ pw.phase = "stored"
    /\ pw' = [pw EXCEPT !.phase = "verified", !.p1 = p1,
                        !.v = verify_password(p1, pw.stored, bcryptTruncates),
                        !.login = login("a@b.com", p1, PwUsers, bcryptTruncates, now),
                        !.loginUnknown = login("c@d.org", p1, PwUsers, bcryptTruncates, now),
                        !.authLogin = auth_login("a@b.com", p1, PwDocuments),
                        !.authLoginUnknown = auth_login("c@d.org", p1, PwDocuments)]
    /\ PwFrame

JwtFrame ==
    UNCHANGED <<users, nextId, courses, nextCourseId, enrollments, bcryptTruncates,
                lastReq, resp, pw, session, proc, uuids, flaskEnv>>

JwtTick ==
    /\ jw.phase \in {"start", "issued"}
    /\ now < MaxNow
    /\ now' = now + 1
    /\ UNCHANGED jw
    /\ JwtFrame

JwtIssue ==
    /\ jw.phase = "start"
    /\ now <= MaxIssueTime
    /\ jw' = [jw EXCEPT !.phase = "issued", !.issuedAt = now,
                        !.token = generate_jwt(jw.c, jw.s, jw.ttl, now)]
    /\ UNCHANGED now
    /\ JwtFrame

JwtTamper ==
    /\ jw.phase = "issued"
    /\ ~jw.tampered
    /\ \E tok \in Tamperings(jw.token) :
          jw' = [jw EXCEPT !.token = tok, !.tampered = TRUE]
    /\ UNCHANGED now
    /\ JwtFrame

JwtVerify(secret) ==
    /\ jw.phase = "issued"
    /\ jw' = [jw EXCEPT !.phase = "verified", !.s2 = secret, !.verifiedAt = now,
                        !.result = decode_jwt(jw.token, secret, now),
                        !.auth = authenticate_request(Bearer(jw.token), users, now)]
    /\ UNCHANGED now
    /\ JwtFrame

----------------------------------------------------------------------------
(* The application *)

Tick ==
    /\ now < MaxClock
    /\ now' = now + 1
    /\ UNCHANGED <<users, nextId, courses, nextCourseId, enrollments, bcryptTruncates,
                   lastReq, resp, jw, pw, session, proc, uuids, flaskEnv>>

EmptyTable == [k \in {} |-> 0]

Init ==
    /\ users = EmptyTable
    /\ nextId = 1
    /\ courses = EmptyTable
    /\ nextCourseId = 1
    /\ enrollments = {}
    /\ now = 0
    \* the two bcrypt builds differ only on passwords longer than 72 bytes;
    \* the requests of this specification send none
    /\ bcryptTruncates = TRUE
    /\ lastReq = NoRequest
    /\ resp = NoResponse
    /\ jw = JwIdle
    /\ pw = PwIdle
    /\ session = NoToken
    /\ proc = EmptyTable
    /\ uuids = 0
    /\ flaskEnv = "production"

UserIds == 1..(MaxUsers + 1)
CourseIds == 1..(MaxCourses + 1)

Next ==
    \/ Tick
    \/ \E e \in EmailInputs, p \in RegisterPasswords, r \in RoleInputs, s \in RegisterSalts :
          Register(e, p, r, s)
    \/ \E e \in EmailInputs, p \in LoginPasswords : Login(e, p)
    \/ \E h \in Headers(users, now) : GetUsers(h)
    \/ \E h \in Headers(users, now), id \in UserIds : GetUser(h, id)
    \/ \E h \in Headers(users, now), id \in UserIds, d \in UpdateInputs, s \in RegisterSalts :
          UpdateUser(h, id, d, s)
    \/ \E h \in Headers(users, now), id \in UserIds : DeleteUser(h, id)
    \/ \E h \in Headers(users, now), p \in Prices \cup {-1}, pub \in BOOLEAN :
          CreateCourse(h, p, pub)
    \/ \E h \in Headers(users, now), c \in CourseIds : UpdateCourse(h, c, 0, TRUE)
    \/ \E h \in Headers(users, now), c \in CourseIds : GetCourseAnalytics(h, c)
    \/ \E h \in Headers(users, now), c \in CourseIds : CourseEnroll(h, c)
    \/ \E h \in Headers(users, now) : GetEnrollments(h)
    \/ \E h \in Headers(users, now) : GetAvailableCourses(h)
    \/ \E h \in Headers(users, now), c \in {0} \cup CourseIds : StudentEnroll(h, c)

Spec == Init /\ [][Next]_vars

InitJwt ==
    /\ users = ScenarioUsers
    /\ nextId = 2
    /\ courses = EmptyTable
    /\ nextCourseId = 1
    /\ enrollments = {}
    /\ now = 0
    /\ bcryptTruncates = TRUE
    /\ lastReq = NoRequest
    /\ resp = NoResponse
    /\ \E c \in ClaimSets, s \in Secrets, ttl \in TTLs :
          jw = [JwIdle EXCEPT !.phase = "start", !.c = c, !.s = s, !.ttl = ttl]
    /\ pw = PwIdle
    /\ session = NoToken
    /\ proc = EmptyTable
    /\ uuids = 0
    /\ flaskEnv = "production"

NextJwt ==
    \/ JwtTick
    \/ JwtIssue
    \/ JwtTamper
    \/ \E s \in Secrets : JwtVerify(s)

SpecJwt == InitJwt /\ [][NextJwt]_vars

InitPw ==
    /\ users = EmptyTable
    /\ nextId = 1
    /\ courses = EmptyTable
    /\ nextCourseId = 1
    /\ enrollments = {}
    /\ now = 0
    /\ bcryptTruncates \in BOOLEAN
    /\ lastReq = NoRequest
    /\ resp = NoResponse
    /\ jw = JwIdle
    /\ \E p \in Plaintexts : pw = [PwIdle EXCEPT !.phase = "start", !.p2 = p]
    /\ session = NoToken
    /\ proc = EmptyTable
    /\ uuids = 0
    /\ flaskEnv = "production"

NextPw ==
    \/ \E s \in Salts : PwHash(s)
    \/ PwCorrupt
    \/ \E p \in Plaintexts : PwVerify(p)

SpecPw == InitPw /\ [][NextPw]_vars

----------------------------------------------------------------------------
(* Concurrent requests: each worker runs one request at a time, and the    *)
(* queries and the commit of a handler are separate steps, between which   *)
(* other workers run. register reads the users table, then inserts;        *)
(* enroll_in_course reads courses and enrollments, then inserts.           *)

Workers == 1..MaxWorkers

ProcIdle ==
    [pc |-> "idle", route |-> "none", email |-> "", row |-> UserRow("", CorruptHash, ""),
     user |-> 0, course_id |-> 0, price |-> 0, resp |-> NoResponse]

MutNoUniqueConstraint(email, usersTable) == FALSE

\* users.email is unique=True: the INSERT or UPDATE of a taken email raises IntegrityError
email_unique_violation(email, usersTable) == EmailTaken(email, usersTable)

\* the worker created a user with this email
Created(w, email) ==
    /\ proc[w].route = "register"
    /\ proc[w].pc = "done"
    /\ proc[w].email = email
    /\ proc[w].resp.status = 201

\* UniqueConstraint('student_user_id', 'course_id'): NULLs do not collide
enrollment_unique_violation(student, course_id, rows) ==
    /\ student # 0
    /\ \E e \in rows : e.student_user_id = student /\ e.course_id = course_id

RaceFrame ==
    UNCHANGED <<now, bcryptTruncates, lastReq, resp, jw, pw, session, uuids, flaskEnv>>

\* register() up to existing_user = User.query.filter_by(email=email).first()
RegisterBegin(w, email, password, roleInput, salt) ==
    LET route == "register"
        role == IF roleInput = AbsentRole THEN "student" ELSE roleInput
        h == hash_password(password, salt, bcryptTruncates)
        Answer(r) == proc' = [proc EXCEPT ![w] = [ProcIdle EXCEPT !.pc = "done",
                                                   !.route = route, !.email = email, !.resp = r]]
    IN  /\ proc[w].pc = "idle"
        /\ IF email = "" THEN
               Answer(Response(route, 400, "Email is required", "", TRUE, NoToken))
           ELSE IF ~validate_email(email) THEN
               Answer(Response(route, 400, "Invalid email format", "", TRUE, NoToken))
           ELSE IF Len(password) = 0 THEN
               Answer(Response(route, 400, "Password is required", "", TRUE, NoToken))
           ELSE IF ~validate_password(password) THEN
               Answer(Response(route, 400, "Password must be at least 8 characters long",
                               "", TRUE, NoToken))
           ELSE IF role \notin ValidRoles THEN
               Answer(Response(route, 400, "Role must be one of: student, teacher, parent",
                               "", TRUE, NoToken))
           ELSE IF EmailTaken(email, users) THEN
               Answer(Response(route, 409, "Email already registered", "", TRUE, NoToken))
           ELSE IF role \notin UserRole THEN
               Answer(Response(route, 500, "Error during registration", "KeyError",
                               TRUE, NoToken))
           ELSE IF h.raised # "" THEN
               Answer(Response(route, 500, "Error during registration", h.raised,
                               TRUE, NoToken))
           ELSE
               proc' = [proc EXCEPT ![w] = [ProcIdle EXCEPT !.pc = "insert", !.route = route,
                                            !.email = email,
                                            !.row = UserRow(email, h.value, role)]]
        /\ UNCHANGED <<users, nextId, courses, nextCourseId, enrollments>>
        /\ RaceFrame

\* register() from db.session.add(new_user); db.session.flush() on
RegisterCommit(w) ==
    LET route == "register"
        row == proc[w].row
    IN  /\ proc[w].pc = "insert"
        /\ proc[w].route = route
        /\ nextId <= MaxUsers + MaxWorkers
        /\ IF email_unique_violation(row.email, users) THEN
               /\ proc' = [proc EXCEPT ![w].pc = "done",
                              ![w].resp = Response(route, 500, "Error during registration",
                                                   "IntegrityError", TRUE, NoToken)]
               /\ users' = users
           ELSE
               /\ users' = Insert(users, nextId, row)
               /\ proc' = [proc EXCEPT ![w].pc = "done", ![w].user = nextId,
                              ![w].resp = WithUserData(
                                  Response(route, 201, "Registration successful", "", TRUE,
                                           generate_jwt(RegisterClaims(nextId, row.email, row.role),
                                                        JWT_SECRET_KEY, DEFAULT_EXPIRY, now)),
                                  serialize_user)]
        \* nextval('users_id_seq') is not rolled back
        /\ nextId' = nextId + 1
        /\ UNCHANGED <<courses, nextCourseId, enrollments>>
        /\ RaceFrame

\* enroll_in_course() of app/routes/main_student.py up to the query for an
\* existing enrollment
EnrollBegin(w, header, course_id) ==
    LET route == "student_enroll"
        g == inline_gate(header, users, now)
        Answer(r) == proc' = [proc EXCEPT ![w] = [ProcIdle EXCEPT !.pc = "done",
                                  !.route = route, !.user = g.user,
                                  !.course_id = course_id, !.resp = r]]
    IN  /\ proc[w].pc = "idle"
        /\ IF ~g.forward THEN Answer(GateResponse(route, g))
           ELSE IF course_id = 0 THEN
               Answer(CalledWith(g.user,
                      Response(route, 400, "Course ID is required", "", TRUE, NoToken)))
           ELSE IF course_id \notin DOMAIN courses \/ ~courses[course_id].is_published THEN
               Answer(CalledWith(g.user,
                      Response(route, 404, "Course not found or not available", "",
                               TRUE, NoToken)))
           ELSE IF \E e \in enrollments :
                      e.student_user_id = g.user /\ e.course_id = course_id THEN
               Answer(CalledWith(g.user,
                      Response(route, 409, "Student is already enrolled in this course",
                               "", TRUE, NoToken)))
           ELSE
               proc' = [proc EXCEPT ![w] = [ProcIdle EXCEPT !.pc = "insert", !.route = route,
                                            !.user = g.user, !.course_id = course_id,
                                            !.price = courses[course_id].price]]
        /\ UNCHANGED <<users, nextId, courses, nextCourseId, enrollments>>
        /\ RaceFrame

\* enroll_in_course() from db.session.add(new_enrollment); db.session.commit() on
EnrollCommit(w) ==
    LET route == "student_enroll"
        p == proc[w]
    IN  /\ p.pc = "insert"
        /\ p.route = route
        /\ IF enrollment_unique_violation(p.user, p.course_id, enrollments) THEN
               /\ proc' = [proc EXCEPT ![w].pc = "done",
                              ![w].resp = CalledWith(p.user,
                                  Response(route, 500, "Error during enrollment",
                                           "IntegrityError", TRUE, NoToken))]
               /\ enrollments' = enrollments
           ELSE
               /\ enrollments' = enrollments \cup
                                    {EnrollmentRow(NextEnrollmentId(enrollments), p.user,
                                                   p.course_id, p.price)}
               /\ proc' = [proc EXCEPT ![w].pc = "done",
                              ![w].resp = CalledWith(p.user,
                                  Response(route, 201, "Enrollment successful", "",
                                           TRUE, NoToken))]
        /\ UNCHANGED <<users, nextId, courses, nextCourseId>>
        /\ RaceFrame

\* the worker has sent its response and takes the next request
Finish(w) ==
    /\ proc[w].pc = "done"
    /\ proc' = [proc EXCEPT ![w] = ProcIdle]
    /\ UNCHANGED <<users, nextId, courses, nextCourseId, enrollments>>
    /\ RaceFrame

\* the data store the workers start from: a student, a teacher and her
\* published course
RaceCourses == Insert(EmptyTable, 1, CourseRow(2, 100000, TRUE))

\* the tokens of the two users and of nobody
RaceHeaders(usersTable, t) ==
    {NoHeader} \cup {Bearer(LoginToken(id, usersTable, JWT_SECRET_KEY, t)) : id \in 1..2}

RaceUsers ==
    Insert(Insert(EmptyTable, 1, UserRow("a@b.com", BcryptHash("saltA", Password1), "student")),
           2, UserRow("t@u.edu", BcryptHash("saltA", Password1), "teacher"))

InitRace ==
    /\ users = RaceUsers
    /\ nextId = 3
    /\ courses = RaceCourses
    /\ nextCourseId = 2
    /\ enrollments = {}
    /\ now = 0
    /\ bcryptTruncates = TRUE
    /\ lastReq = NoRequest
    /\ resp = NoResponse
    /\ jw = JwIdle
    /\ pw = PwIdle
    /\ session = NoToken
    /\ proc = [w \in Workers |-> ProcIdle]
    /\ uuids = 0
    /\ flaskEnv = "production"

NextRace ==
    \/ \E w \in Workers, e \in Emails, r \in {AbsentRole, "admin"}, s \in RegisterSalts :
          RegisterBegin(w, e, Password1, r, s)
    \/ \E w \in Workers : RegisterCommit(w)
    \/ \E w \in Workers, h \in RaceHeaders(users, now), c \in CourseIds :
          EnrollBegin(w, h, c)
    \/ \E w \in Workers : EnrollCommit(w)
    \/ \E w \in Workers : Finish(w)
    \/ \E h \in RaceHeaders(users, now), id \in 1..2, s \in RegisterSalts :
          UpdateUser(h, id, UpdateData({"email"}, "c@d.org", <<>>, <<>>), s)
    \/ \E h \in RaceHeaders(users, now), c \in CourseIds : CourseEnroll(h, c)

SpecRace == InitRace /\ [][NextRace]_vars

----------------------------------------------------------------------------
(* Enrollment scenario: the data store holds a student, a teacher, a       *)
(* parent and the teacher's two courses, one of them published; users      *)
(* enroll, the courses' prices and publication change, and the teacher     *)
(* asks for the analytics.                                                 *)

EnrollUsers ==
    Insert(RaceUsers, 3, UserRow("p@q.net", BcryptHash("saltA", Password1), "parent"))

EnrollCourses == Insert(RaceCourses, 2, CourseRow(2, 0, FALSE))

EnrollHeaders(usersTable, t) ==
    {NoHeader} \cup {Bearer(LoginToken(id, usersTable, JWT_SECRET_KEY, t)) : id \in 1..3}

\* the UPDATE of update_course, committed in the data store
StoreUpdateCourse(course_id, price, is_published) ==
    /\ course_id \in DOMAIN courses
    /\ courses' = [courses EXCEPT ![course_id].price = price,
                                  ![course_id].is_published = is_published]
    /\ UNCHANGED <<users, nextId, nextCourseId, enrollments, now, bcryptTruncates,
                   lastReq, resp, jw, pw, session, proc, uuids, flaskEnv>>

InitEnroll ==
    /\ users = EnrollUsers
    /\ nextId = 4
    /\ courses = EnrollCourses
    /\ nextCourseId = 3
    /\ enrollments = {}
    /\ now = 0
    /\ bcryptTruncates = TRUE
    /\ lastReq = NoRequest
    /\ resp = NoResponse
    /\ jw = JwIdle
    /\ pw = PwIdle
    /\ session = NoToken
    /\ proc = EmptyTable
    /\ uuids = 0
    /\ flaskEnv = "production"

\* the first course changes its price, the second its publication
NextEnroll ==
    \/ \E h \in EnrollHeaders(users, now), c \in 0..2 :
          Cardinality(enrollments) < MaxEnrollments /\ StudentEnroll(h, c)
    \/ \E h \in EnrollHeaders(users, now), c \in 1..2 : CourseEnroll(h, c)
    \/ \E h \in EnrollHeaders(users, now), c \in 1..2 : GetCourseAnalytics(h, c)
    \/ \E h \in EnrollHeaders(users, now), c \in 1..2, p \in {0, -1} :
          UpdateCourse(h, c, p, TRUE)
    \/ \E p \in Prices : StoreUpdateCourse(1, p, TRUE)
    \/ \E pub \in BOOLEAN : StoreUpdateCourse(2, 0, pub)
    \/ \E h \in EnrollHeaders(users, now) : GetEnrollments(h)

SpecEnroll == InitEnroll /\ [][NextEnroll]_vars

----------------------------------------------------------------------------
(* Course scenario: the data store holds a student, two teachers and a     *)
(* parent; the first teacher owns a published and an unpublished course.   *)
(* Users ask for the courses, try to create, change and delete them, and   *)
(* enroll; the publication of the courses changes in the data store.       *)

CourseUsers ==
    Insert(EnrollUsers, 4, UserRow("o@u.edu", BcryptHash("saltA", Password1), "teacher"))

CourseHeaders(usersTable, t) ==
    {NoHeader} \cup {Bearer(LoginToken(id, usersTable, JWT_SECRET_KEY, t)) : id \in 1..4}

InitCourse ==
    /\ users = CourseUsers
    /\ nextId = 5
    /\ courses = EnrollCourses
    /\ nextCourseId = 3
    /\ enrollments = {}
    /\ now = 0
    /\ bcryptTruncates = TRUE
    /\ lastReq = NoRequest
    /\ resp = NoResponse
    /\ jw = JwIdle
    /\ pw = PwIdle
    /\ session = NoToken
    /\ proc = EmptyTable
    /\ uuids = 0
    /\ flaskEnv = "production"

NextCourse ==
    \/ \E h \in CourseHeaders(users, now), p \in {0, -1}, pub \in BOOLEAN :
          CreateCourse(h, p, pub)
    \/ \E h \in CourseHeaders(users, now), c \in 1..3 : UpdateCourse(h, c, 0, TRUE)
    \/ \E h \in CourseHeaders(users, now), c \in 1..3 : DeleteCourse(h, c)
    \/ \E h \in CourseHeaders(users, now), c \in 1..3 : GetCourse(h, c)
    \/ \E h \in CourseHeaders(users, now) : GetCourses(h)
    \/ \E h \in CourseHeaders(users, now) : GetAvailableCourses(h)
    \/ \E h \in CourseHeaders(users, now), c \in 1..2 :
          Cardinality(enrollments) < MaxEnrollments /\ StudentEnroll(h, c)
    \/ \E c \in 1..2, pub \in BOOLEAN : StoreUpdateCourse(c, courses[c].price, pub)

SpecCourse == InitCourse /\ [][NextCourse]_vars

----------------------------------------------------------------------------
(* Session scenario: two users are registered; a client logs in and keeps  *)
(* the token, passwords get reset and changed, a user's row is deleted     *)
(* from the data store, a day passes, and the kept token is presented.     *)

\* the users table after these two registrations
RegisteredUsers ==
    Insert(Insert(EmptyTable, 1, UserRow("a@b.com", BcryptHash("saltA", Password1), "student")),
           2, UserRow("c@d.org", BcryptHash("saltA", Password1), "teacher"))

\* the client keeps the token of the response it just got
KeepToken ==
    /\ IssuesToken(resp)
    /\ session = NoToken
    /\ session' = resp.token
    /\ UNCHANGED <<users, nextId, courses, nextCourseId, enrollments, now, bcryptTruncates,
                   lastReq, resp, jw, pw, proc, uuids, flaskEnv>>

\* the DELETE of delete_user, committed in the data store
StoreDeleteUser(user_id) ==
    /\ user_id \in DOMAIN users
    /\ users' = Remove(users, user_id)
    /\ courses' = [c \in DOMAIN courses |->
                     [courses[c] EXCEPT !.teacher_user_id = Nullify(@, user_id)]]
    /\ enrollments' = {[e EXCEPT !.student_user_id = Nullify(@, user_id)] : e \in enrollments}
    /\ UNCHANGED <<nextId, nextCourseId, now, bcryptTruncates, lastReq, resp, jw, pw,
                   session, proc, uuids, flaskEnv>>

\* the lifetime of a token passes
DayPasses ==
    /\ now < DEFAULT_EXPIRY * TicksPerSecond
    /\ now' = now + DEFAULT_EXPIRY * TicksPerSecond
    /\ UNCHANGED <<users, nextId, courses, nextCourseId, enrollments, bcryptTruncates,
                   lastReq, resp, jw, pw, session, proc, uuids, flaskEnv>>

\* what the client sends: no header, or the token it kept
SessionHeaders == {NoHeader, Bearer(session)}

InitSession ==
    /\ users = RegisteredUsers
    /\ nextId = 3
    /\ courses = EmptyTable
    /\ nextCourseId = 1
    /\ enrollments = {}
    /\ now = 0
    /\ bcryptTruncates = TRUE
    /\ lastReq = NoRequest
    /\ resp = NoResponse
    /\ jw = JwIdle
    /\ pw = PwIdle
    /\ session = NoToken
    /\ proc = EmptyTable
    /\ uuids = 0
    /\ flaskEnv = "production"

NextSession ==
    \/ Tick
    \/ DayPasses
    \/ \E e \in Emails, p \in {Password1, Password2} : Login(e, p)
    \/ KeepToken
    \/ \E e \in Emails : ForgotPassword(e)
    \/ \E tok \in 0..MaxUuids, pc \in ResetPasswords, s \in RegisterSalts :
          ResetPassword(tok, pc[1], pc[2], s)
    \/ \E h \in SessionHeaders, id \in 1..MaxUsers, d \in UpdateInputs, s \in RegisterSalts :
          UpdateUser(h, id, d, s)
    \/ \E h \in SessionHeaders, id \in 1..MaxUsers : DeleteUser(h, id)
    \/ \E id \in 1..MaxUsers : StoreDeleteUser(id)
    \/ \E h \in SessionHeaders : GetEnrollments(h)
    \/ \E h \in SessionHeaders, c \in CourseIds : GetCourseAnalytics(h, c)

SpecSession == InitSession /\ [][NextSession]_vars

----------------------------------------------------------------------------
(* Reset scenario: one or two users are registered, and the application    *)
(* runs in production or in development; clients ask for reset tokens and  *)
(* reset passwords with the tokens there are, while days pass.             *)

\* the users table with the rows of this email taken out
WithoutEmail(usersTable, email) ==
    [id \in {k \in DOMAIN usersTable : usersTable[k].email # email} |-> usersTable[id]]

InitReset ==
    /\ users \in {RegisteredUsers, WithoutEmail(RegisteredUsers, "c@d.org")}
    /\ nextId = 3
    /\ courses = EmptyTable
    /\ nextCourseId = 1
    /\ enrollments = {}
    /\ now = 0
    /\ bcryptTruncates = TRUE
    /\ lastReq = NoRequest
    /\ resp = NoResponse
    /\ jw = JwIdle
    /\ pw = PwIdle
    /\ session = NoToken
    /\ proc = EmptyTable
    /\ uuids = 0
    /\ flaskEnv \in FlaskEnvs

NextReset ==
    \/ Tick
    \/ DayPasses
    \/ \E e \in EmailInputs : ForgotPassword(e)
    \/ \E tok \in 0..MaxUuids, pc \in ResetPasswords, s \in RegisterSalts :
          ResetPassword(tok, pc[1], pc[2], s)
    \/ \E e \in Emails, p \in {Password1, Password2} : Login(e, p)

SpecReset == InitReset /\ [][NextReset]_vars

----------------------------------------------------------------------------
(* Update scenario: one or two users are registered, the first of them     *)
(* verified. Clients send update requests for their accounts, and          *)
(* update_user is also applied the way owner_required hands a resolved     *)
(* request to it, with the owner as current_user.                          *)

\* update_user(current_user, user_id), current_user being the user of user_id
UpdateUserCall(user_id, data, salt) ==
    LET r == update_user(user_id, user_id, data, users, salt, bcryptTruncates)
        header == Bearer(LoginToken(user_id, users, JWT_SECRET_KEY, now))
    IN  /\ user_id \in DOMAIN users
        /\ lastReq' = [Request("update_user", header, user_id) EXCEPT !.data = data]
        /\ resp' = CalledWith(user_id, r.response)
        /\ users' = r.users
        /\ UNCHANGED <<nextId, courses, nextCourseId, enrollments, now>>
        /\ Frame

WithKeys(data, keys) == [data EXCEPT !.keys = keys]

\* the JSON bodies sent: a name, alone or with a gender, an email or a password
UpdateCallInputs ==
    {WithKeys(NoData, {"name"}),
     [WithKeys(NoData, {"name", "gender"}) EXCEPT !.gender = "female"],
     [WithKeys(NoData, {"name", "gender"}) EXCEPT !.gender = "unknown"],
     UpdateData({"name", "email"}, "c@d.org", <<>>, <<>>),
     UpdateData({"name", "email"}, "not-an-email", <<>>, <<>>),
     UpdateData({"name", "password"}, "", Password2, <<>>),
     UpdateData({"name", "password", "current_password"}, "", Password2, Password1),
     UpdateData({"name", "password", "current_password"}, "", Password2, Password2),
     UpdateData({"name", "password", "current_password"}, "", ShortPassword, Password1),
     [UpdateData({"name", "password", "current_password", "confirm_password"},
                 "", Password2, Password1) EXCEPT !.confirm_password = Password1]}

VerifiedUsers == [RegisteredUsers EXCEPT ![1].is_verified = TRUE]

InitUpdate ==
    /\ users \in {VerifiedUsers, WithoutEmail(VerifiedUsers, "c@d.org")}
    /\ nextId = 3
    /\ courses = EmptyTable
    /\ nextCourseId = 1
    /\ enrollments = {}
    /\ now = 0
    /\ bcryptTruncates = TRUE
    /\ lastReq = NoRequest
    /\ resp = NoResponse
    /\ jw = JwIdle
    /\ pw = PwIdle
    /\ session = NoToken
    /\ proc = EmptyTable
    /\ uuids = 0
    /\ flaskEnv = "production"

NextUpdate ==
    \/ \E h \in RaceHeaders(users, now), id \in 1..MaxUsers, d \in UpdateCallInputs,
          s \in RegisterSalts : UpdateUser(h, id, d, s)
    \/ \E id \in 1..MaxUsers, d \in UpdateCallInputs, s \in RegisterSalts :
          UpdateUserCall(id, d, s)
    \/ \E e \in Emails, p \in {Password1, Password2} : Login(e, p)

SpecUpdate == InitUpdate /\ [][NextUpdate]_vars

----------------------------------------------------------------------------
(* Properties of the gates *)

RoleRoutes == {"create_course", "update_course", "get_course_analytics", "course_enroll"}
OwnerRoutes == {"update_user", "delete_user"}
StudentRoutes == {"get_enrollments", "get_available_courses", "student_enroll"}
DecoratedRoutes == RoleRoutes \cup OwnerRoutes
GatedRoutes == DecoratedRoutes \cup StudentRoutes

\* the roles each role_required route names
AllowedRoles(route) ==
    IF route \in {"create_course", "update_course"} THEN {"teacher"}
    ELSE IF route = "get_course_analytics" THEN {"teacher", "admin"}
    ELSE IF route = "course_enroll" THEN {"student"}
    ELSE {}

\* the request carried a bearer token that verified and whose subject exists
Resolved(req) ==
    /\ req.bearer
    /\ req.tokenError = ""
    /\ req.subject # 0
    /\ req.subjectRole # ""

\* the role or ownership predicate of the request's route holds of its subject
PredicateHeld(req) ==
    IF req.route \in RoleRoutes THEN req.subjectRole \in AllowedRoles(req.route)
    ELSE IF req.route \in OwnerRoutes THEN req.subject = req.param
    ELSE TRUE

Authorized(req) == Resolved(req) /\ PredicateHeld(req)

(* C1: on a route wrapped by role_required or owner_required the wrapped   *)
(* function is called only for a request whose bearer token verified,      *)
(* whose subject is in the users table and whose role or ownership         *)
(* predicate held, and then with that subject; every other request ends    *)
(* in the gate.                                                            *)
C1_HandlerOnlyIfAuthorized ==
    resp.route \in DecoratedRoutes =>
        /\ resp.handler => Authorized(lastReq) /\ resp.user = lastReq.subject
        /\ ~Authorized(lastReq) => ~resp.handler /\ resp.user = 0

\* a request with a token of a wrong signature has ended in a gate
C1_Witness ==
    /\ resp.route \in DecoratedRoutes
    /\ lastReq.bearer
    /\ lastReq.tokenError = "InvalidSignatureError"
    /\ lastReq.subjectRole = "teacher"
    /\ ~resp.handler

(* C2: role_required(R) answers 403 to a request that resolves to a user   *)
(* whose role is not in R, forwards a user whose role is in R to the       *)
(* wrapped function, and answers 403 to no request that failed to resolve. *)
C2_RoleGate ==
    resp.route \in RoleRoutes =>
        /\ Resolved(lastReq) /\ lastReq.subjectRole \notin AllowedRoles(resp.route)
              => resp.status = 403 /\ resp.structured
        /\ Resolved(lastReq) /\ lastReq.subjectRole \in AllowedRoles(resp.route)
              => resp.handler /\ resp.user = lastReq.subject
        /\ ~Resolved(lastReq) => resp.status # 403

(* C3: every failure of the session resolver is answered 401 with its      *)
(* reason, and on success the resolved user is the one forwarded.          *)
C3_ResolverFailuresAre401 ==
    resp.route \in StudentRoutes =>
        /\ ~Resolved(lastReq) =>
              resp.status = 401 /\ resp.structured /\ resp.message # "" /\ ~resp.handler
        /\ Resolved(lastReq) => resp.handler /\ resp.user = lastReq.subject

(* C4: on every gated route an authentication or authorization failure is  *)
(* answered by a structured 401 or 403, and no request ends in an          *)
(* exception leaving the gate or the call of the wrapped function.         *)
C4_FailuresAreStructured ==
    resp.route \in GatedRoutes =>
        /\ resp.raised = ""
        /\ ~Authorized(lastReq) => resp.structured /\ resp.status \in {401, 403}

(* C5: behind owner_required the wrapped function runs exactly when the    *)
(* authenticated user's id is the route's user_id; any other authenticated *)
(* user is answered 403.                                                   *)
C5_OwnerGate ==
    resp.route \in OwnerRoutes /\ Resolved(lastReq) =>
        /\ resp.handler <=> lastReq.subject = lastReq.param
        /\ lastReq.subject # lastReq.param => resp.status = 403

----------------------------------------------------------------------------
(* Properties of the tokens *)

Verified == jw.phase = "verified"

\* the expiry second of the scenario's token: the issue time cut to whole
\* seconds, plus the lifetime
ExpirySecond == (jw.issuedAt \div TicksPerSecond) + jw.ttl

\* the token is verified as issued, with the issuing secret, and carries no
\* registered claim but exp
PlainVerification ==
    /\ Verified
    /\ ~jw.tampered
    /\ jw.s2 = jw.s
    /\ jw.c.keys \cap {"nbf", "aud"} = {}

(* C6 as stated: a token issued at t with lifetime d and verified with the *)
(* issuing secret is rejected as expired exactly when now > t + d.         *)
C6_ExpiredExactlyAfterTtl ==
    PlainVerification =>
        (jw.result.err = "ExpiredSignatureError"
            <=> jw.verifiedAt > jw.issuedAt + jw.ttl * TicksPerSecond)

(* C6 as amended: the token is rejected as expired exactly from its expiry *)
(* second on, the issue time cut to whole seconds plus d, that instant     *)
(* included; so never later than t + d, at once for d = -1, and by the     *)
(* resolver, with 401, two seconds after an issue with d = 1.              *)
C6_ExpiredFromExpirySecondOn ==
    PlainVerification =>
        /\ jw.result.err \in {"", "ExpiredSignatureError"}
        /\ jw.result.err = "ExpiredSignatureError"
              <=> jw.verifiedAt >= ExpirySecond * TicksPerSecond
        /\ jw.verifiedAt > jw.issuedAt + jw.ttl * TicksPerSecond
              => jw.result.err = "ExpiredSignatureError"
        /\ jw.ttl = -1 => jw.result.err = "ExpiredSignatureError"
        /\ jw.ttl = 1 /\ jw.s = JWT_SECRET_KEY
              /\ jw.verifiedAt >= jw.issuedAt + 2 * TicksPerSecond
              => /\ jw.auth.isTuple
                 /\ jw.auth.status = 401
                 /\ jw.auth.reason = "ExpiredSignatureError"

\* a token issued within a second, verified at its expiry second, before t + d
C6_Witness ==
    /\ PlainVerification
    /\ jw.ttl = 1
    /\ jw.issuedAt % TicksPerSecond # 0
    /\ jw.verifiedAt = ExpirySecond * TicksPerSecond
    /\ jw.verifiedAt < jw.issuedAt + jw.ttl * TicksPerSecond
    /\ jw.result.err = "ExpiredSignatureError"

\* the payload decode_jwt returns is c with the expiry added or overwritten
RoundTrip ==
    /\ jw.result.err = ""
    /\ jw.result.payload.keys = jw.c.keys \cup {"exp"}
    /\ [jw.result.payload EXCEPT !.exp = 0] =
          [jw.c EXCEPT !.keys = @ \cup {"exp"}, !.exp = 0]
    /\ jw.result.payload.exp = ExpirySecond

BeforeExpiry == jw.verifiedAt < ExpirySecond * TicksPerSecond

C8_SignatureDecides ==
    Verified =>
        /\ jw.s2 # jw.s /\ ~jw.tampered => jw.result.err = "InvalidSignatureError"
        /\ jw.tampered => jw.result.err # ""
        /\ jw.tampered /\ jw.token.wf => jw.result.err = "InvalidSignatureError"
        /\ jw.result.err = "" =>
              /\ jw.s2 = jw.s
              /\ jw.result.payload = generate_jwt(jw.c, jw.s, jw.ttl, jw.issuedAt).claims

\* a token whose exp claim was pushed back is verified with the issuing secret
C8_Witness ==
    /\ Verified
    /\ jw.tampered
    /\ jw.s2 = jw.s
    /\ jw.token.claims.exp > ExpirySecond
    /\ jw.verifiedAt >= ExpirySecond * TicksPerSecond
    /\ jw.result.err = "InvalidSignatureError"

----------------------------------------------------------------------------
(* Properties of the password hasher *)

(* C9: for every hash that hash_password produced of a plaintext p2, what  *)
(* verify_password(p1, hash) returns is true if and only if p1 = p2.       *)
C9_VerifyIffSamePlaintext ==
    pw.phase = "verified" /\ ~pw.corrupted /\ pw.v.raised = "" =>
        (pw.v.value <=> pw.p1 = pw.p2)

(* C10: verify_password raises for no plaintext (of a length every bcrypt  *)
(* build takes) and no stored string, and returns false for a stored       *)
(* string that is no hash; a login against such a user is answered 401.    *)
C10_VerifyNeverRaises ==
    pw.phase = "verified" /\ Len(pw.p1) <= BCRYPT_MAX_BYTES =>
        /\ pw.v.raised = ""
        /\ pw.corrupted => ~pw.v.value /\ pw.login.status = 401

----------------------------------------------------------------------------
(* Properties of login *)

\* the same status and the same message
SameAnswer(r1, r2) == r1.status = r2.status /\ r1.message = r2.message

(* C11: a login naming a registered email with a password other than the   *)
(* one registered and a login naming an unregistered email get the same    *)
(* response, status 401 with the same message, on both login routes       *)
(* (whenever the check of the password returns).                           *)
C11_LoginDoesNotDistinguish ==
    pw.phase = "verified" /\ pw.p1 # pw.p2 /\ pw.v.raised = "" =>
        /\ pw.login.status = 401
        /\ SameAnswer(pw.login, pw.loginUnknown)
        /\ pw.authLogin.status = 401
        /\ SameAnswer(pw.authLogin, pw.authLoginUnknown)

(* C12: a token is handed out only by a register that created the user or  *)
(* by a login whose password verifies against the stored hash of the user  *)
(* with the given email; its subject is that user's id, and the resolver   *)
(* takes it for that user and no other; a student route runs only for the  *)
(* existing user the presented token names.                                *)
C12_TokenOnlyForItsUser ==
    /\ IssuesToken(resp) =>
          /\ lastReq.route \in {"register", "login"}
          /\ resp.status = IF lastReq.route = "register" THEN 201 ELSE 200
          /\ EmailTaken(lastReq.email, users)
          /\ LET id == UserByEmail(lastReq.email, users)
             IN  /\ resp.token.claims.userId = id
                 /\ resp.token.claims.email = lastReq.email
                 /\ verify_password(lastReq.password, users[id].password,
                                    bcryptTruncates) = Returned(TRUE)
                 /\ authenticate_request(Bearer(resp.token), users, now) = AuthUser(id)
                 /\ lastReq.route = "register" => id = nextId - 1
    /\ lastReq.route \in StudentRoutes /\ resp.handler =>
          /\ lastReq.tokenError = ""
          /\ lastReq.subject \in DOMAIN users
          /\ resp.user = lastReq.subject

\* the second of two users logged in and got a token naming her
C12_Witness ==
    /\ lastReq.route = "login"
    /\ IssuesToken(resp)
    /\ Cardinality(DOMAIN users) = 2
    /\ resp.token.claims.userId = 2
    /\ users[2].email = lastReq.email

----------------------------------------------------------------------------
(* Properties of the stored credentials *)

\* what hash_password returns for the passwords clients send
HasherOutputs ==
    {hash_password(p, salt, TRUE).value :
        p \in RegisterPasswords \cup LoginPasswords \cup Plaintexts, salt \in Salts}

(* C13: the stored password of every user is a hash the hasher produced,   *)
(* never the plaintext, and no response carries the password column of a   *)
(* user row, in its body or in the claims of the token it hands out.       *)
C13_PasswordNeverReturned ==
    /\ \A id \in DOMAIN users : users[id].password \in HasherOutputs
    /\ "password" \notin resp.data
    /\ "password" \notin resp.token.claims.keys

\* a login was answered with the user's row, serialized
C13_Witness ==
    /\ lastReq.route = "login"
    /\ resp.status = 200
    /\ users[resp.token.claims.userId].password = BcryptHash("saltA", lastReq.password)
    /\ {"id", "email", "role"} \subseteq resp.data

----------------------------------------------------------------------------
(* Properties of sessions *)

\* the request presented the kept token, which verified
PresentedSession ==
    /\ IssuesToken([token |-> session])
    /\ lastReq.route \in GatedRoutes
    /\ lastReq.bearer
    /\ lastReq.tokenError = ""
    /\ lastReq.subject = session.claims.userId

(* C14: once the row of user u is deleted, every request that presents a   *)
(* still-unexpired token issued to u is turned down by the session         *)
(* resolver with "User not found" and reaches no handler.                  *)
C14_DeletedUserIsUnknownSubject ==
    PresentedSession /\ lastReq.subjectRole = "" =>
        /\ ~resp.handler
        /\ resp.structured
        /\ resp.message = "User not found"

\* the kept token is within its lifetime
SessionUnexpired == now < session.claims.exp * TicksPerSecond

(* C15: nothing revokes a token: whatever happened since it was issued,    *)
(* while its user exists and it has not expired the resolver takes the     *)
(* kept token for that user, and a student route then runs as that user.   *)
C15_NothingRevokesAToken ==
    IssuesToken([token |-> session]) =>
        /\ session.claims.userId \in DOMAIN users /\ SessionUnexpired =>
              authenticate_request(Bearer(session), users, now)
                  = AuthUser(session.claims.userId)
        /\ PresentedSession /\ lastReq.route \in StudentRoutes
              /\ lastReq.subjectRole # "" =>
              /\ resp.handler
              /\ resp.user = session.claims.userId

\* the user reset her password with a reset token after she had logged in,
\* and the token of that login still opens a student route
C15_Witness ==
    /\ PresentedSession
    /\ lastReq.route = "get_enrollments"
    /\ session.claims.userId = 1
    /\ 1 \in DOMAIN users
    /\ users[1].password = BcryptHash("saltA", Password2)
    /\ resp.status = 200
    /\ resp.user = 1

----------------------------------------------------------------------------
(* Properties of the data store under concurrent requests *)

EmailsUnique ==
    \A i, j \in DOMAIN users : users[i].email = users[j].email => i = j

\* worker w takes a register request for an email that is registered
RegisterOfTakenEmail(w) ==
    /\ proc[w].pc = "idle"
    /\ proc'[w].route = "register"
    /\ EmailTaken(proc'[w].email, users)

AtMostOneCreates ==
    \A v, w \in Workers :
        Created(v, proc[v].email) /\ Created(w, proc[v].email) => v = w

TakenEmailCreatesNothing ==
    \A w \in Workers :
        RegisterOfTakenEmail(w) =>
            /\ users' = users
            /\ proc'[w].pc = "done"
            /\ proc'[w].resp.status \in {400, 409}

(* C16: whatever the interleaving of register and update_user requests, no *)
(* two stored users have the same email; a register for a registered email *)
(* is answered 409 and creates no user; of the registrations running at    *)
(* once for one email at most one creates a user.                          *)
C16_EmailUnique ==
    /\ [](EmailsUnique /\ AtMostOneCreates)
    /\ [][TakenEmailCreatesNothing]_vars

\* two registrations of one email ran at once: one created the user, the
\* other was stopped by the unique constraint
C16_Witness ==
    \E v, w \in Workers :
        /\ Created(v, "c@d.org")
        /\ proc[w].route = "register"
        /\ proc[w].email = "c@d.org"
        /\ proc[w].pc = "done"
        /\ proc[w].resp.reason = "IntegrityError"
        /\ Cardinality({i \in DOMAIN users : users[i].email = "c@d.org"}) = 1

----------------------------------------------------------------------------
(* Properties of roles *)

\* no request changes the role of a stored user
RolesKept ==
    \A id \in DOMAIN users \cap DOMAIN users' : users'[id].role = users[id].role

\* a register request whose role is given and is none of the three
RegisterWithOtherRole(req) ==
    /\ req.route = "register"
    /\ req.role \notin {"student", "teacher", "parent", AbsentRole}

RolesInClosedSet ==
    /\ \A id \in DOMAIN users : users[id].role \in {"student", "teacher", "parent"}
    /\ RegisterWithOtherRole(lastReq) => resp.status = 400
    /\ lastReq.route = "register" /\ lastReq.role = AbsentRole /\ resp.status = 201
          => users[resp.token.claims.userId].role = "student"

OtherRoleCreatesNothing ==
    RegisterWithOtherRole(lastReq') /\ <<lastReq, resp>>' # <<lastReq, resp>>
        => users' = users

(* C17: every stored user's role is student, teacher or parent; register   *)
(* answers any other role value with 400 and creates nothing, gives a      *)
(* user registered without a role the role student, and no request changes *)
(* a stored role: no user ever holds the role admin.                       *)
C17_RolesClosed ==
    /\ []RolesInClosedSet
    /\ [][RolesKept /\ OtherRoleCreatesNothing]_vars

\* a register asking for the role admin was refused for its role, while a
\* user registered without a role is a student
C17_Witness ==
    /\ lastReq.route = "register"
    /\ lastReq.role = "admin"
    /\ resp.status = 400
    /\ resp.message = "Role must be one of: student, teacher, parent"
    /\ \E id \in DOMAIN users : users[id].role = "student"

----------------------------------------------------------------------------
(* Properties of enrollments *)

Enrolled(student, course_id, rows) ==
    \E e \in rows : e.student_user_id = student /\ e.course_id = course_id

EnrollmentsUnique ==
    \A e1, e2 \in enrollments :
        /\ e1.student_user_id # 0
        /\ e1.student_user_id = e2.student_user_id
        /\ e1.course_id = e2.course_id
        => e1 = e2

\* worker w takes a request of the student endpoint for a pair that has a record
StudentEnrollOfEnrolled(w) ==
    /\ proc[w].pc = "idle"
    /\ proc'[w].route = "student_enroll"
    /\ Enrolled(proc'[w].user, proc'[w].course_id, enrollments)

\* a student's request of the course endpoint for a pair that has a record
CourseEnrollOfEnrolled ==
    /\ lastReq'.route = "course_enroll"
    /\ <<lastReq, resp>>' # <<lastReq, resp>>
    /\ lastReq'.tokenError = ""
    /\ lastReq'.subjectRole = "student"
    /\ Enrolled(lastReq'.subject, lastReq'.param, enrollments)

EnrolledAnswers409 ==
    /\ \A w \in Workers :
          StudentEnrollOfEnrolled(w) =>
              proc'[w].resp.status = 409 /\ enrollments' = enrollments
    /\ CourseEnrollOfEnrolled => resp'.status = 409 /\ enrollments' = enrollments

(* C18: whatever the interleaving of enroll requests on the two endpoints, *)
(* a (student, course) pair has at most one enrollment record, and an      *)
(* enroll request for a pair that has a record is answered 409 and creates *)
(* nothing.                                                                *)
C18_EnrollmentUnique ==
    /\ []EnrollmentsUnique
    /\ [][EnrolledAnswers409]_vars

(* C19: an enrollment record is only ever created for an authenticated     *)
(* user whose role is student, and for a course that exists and is         *)
(* published at that moment; a teacher's or parent's request creates none. *)
C19_OnlyStudentsEnroll ==
    /\ [](\A e \in enrollments : /\ e.student_user_id \in DOMAIN users
                                  /\ users[e.student_user_id].role = "student")
    /\ [][\A e \in enrollments' \ enrollments :
              /\ e.course_id \in DOMAIN courses
              /\ courses[e.course_id].is_published]_vars

\* the teacher of an existing course asks for its analytics with her token
AnalyticsByOwner ==
    /\ lastReq.route = "get_course_analytics"
    /\ lastReq.tokenError = ""
    /\ lastReq.subjectRole = "teacher"
    /\ lastReq.param \in DOMAIN courses
    /\ courses[lastReq.param].teacher_user_id = lastReq.subject

\* a new record carries the price the course has at that moment, and the
\* records there are stay as they are
PricesRecordedAndKept ==
    /\ \A e \in enrollments' \ enrollments :
          /\ e.price_at_enrollment = courses[e.course_id].price
          /\ e.currency_at_enrollment = "VND"
    /\ enrollments \subseteq enrollments'

(* C20: an enrollment records the course's price and currency of the       *)
(* moment of enrollment, no later update of the course changes them, and   *)
(* get_course_analytics reports the sum of the recorded prices as          *)
(* total_revenue and the number of the course's records as                 *)
(* enrollment_count.                                                       *)
C20_RecordedPrices ==
    /\ [][PricesRecordedAndKept]_vars
    /\ [][AnalyticsByOwner' /\ <<lastReq, resp>>' # <<lastReq, resp>>
            => /\ resp'.status = 200
               /\ resp'.enrollment_count = Analytics(lastReq'.param, enrollments).enrollment_count
               /\ resp'.total_revenue = Analytics(lastReq'.param, enrollments).total_revenue]_vars

\* a request was answered in this step
Answered == <<lastReq, resp>>' # <<lastReq, resp>>

\* a teacher asks to change or delete an existing course of somebody else
ChangeByOtherTeacher ==
    /\ Answered
    /\ lastReq'.route \in {"update_course", "delete_course"}
    /\ lastReq'.tokenError = ""
    /\ lastReq'.subjectRole = "teacher"
    /\ lastReq'.param \in DOMAIN courses
    /\ courses[lastReq'.param].teacher_user_id # lastReq'.subject

OtherTeacherAnswered403 ==
    ChangeByOtherTeacher =>
        resp'.status = 403 /\ courses' = courses /\ enrollments' = enrollments

\* a request of a handler never lets a user change or delete a course of
\* somebody else (changes made in the data store apart)
CoursesKeptFromOthers ==
    Answered /\ lastReq'.route \in {"update_course", "delete_course", "create_course"} =>
        \A c \in DOMAIN courses :
            courses[c].teacher_user_id # lastReq'.subject =>
                c \in DOMAIN courses' /\ courses'[c] = courses[c]

CreatedCourseIsCreators ==
    \A c \in DOMAIN courses' \ DOMAIN courses :
        /\ lastReq'.route = "create_course"
        /\ lastReq'.subjectRole = "teacher"
        /\ courses'[c].teacher_user_id = lastReq'.subject

(* C21: update_course and delete_course requested by an authenticated     *)
(* teacher on a course of another teacher answer 403 and leave the course  *)
(* and its enrollments as they are, and a course that create_course        *)
(* creates has the creating teacher's id as its teacher_user_id.           *)
C21_OnlyOwnerChangesCourse ==
    /\ [][OtherTeacherAnswered403]_vars
    /\ [][CreatedCourseIsCreators]_vars

\* an authenticated user who is not the course's teacher asks for an
\* unpublished course
GetUnpublishedByOther ==
    /\ Answered
    /\ lastReq'.route = "get_course"
    /\ lastReq'.tokenError = ""
    /\ lastReq'.param \in DOMAIN courses
    /\ ~courses[lastReq'.param].is_published
    /\ ~(/\ lastReq'.subjectRole = "teacher"
         /\ courses[lastReq'.param].teacher_user_id = lastReq'.subject)

UnpublishedAnswered404 == GetUnpublishedByOther => resp'.status = 404

ListingsOnlyPublished ==
    Answered /\ lastReq'.route \in {"get_courses", "get_available_courses"} =>
        resp'.courses \subseteq PublishedCourses(courses)

\* no response of a course request carries an unpublished course for
\* anybody but its teacher
UnpublishedNotDisclosed ==
    Answered /\ lastReq'.route \in {"get_course", "get_courses", "get_available_courses"} =>
        \A c \in resp'.courses :
            \/ courses[c].is_published
            \/ /\ lastReq'.subjectRole = "teacher"
               /\ courses[c].teacher_user_id = lastReq'.subject

(* C22: get_course on an unpublished course answers 404 unless the         *)
(* authenticated user is a teacher and the course's teacher, and the       *)
(* listings of get_courses and get_available_courses contain only courses  *)
(* that are published at the time of the request.                          *)
C22_UnpublishedHidden ==
    /\ [][UnpublishedAnswered404]_vars
    /\ [][ListingsOnlyPublished]_vars

----------------------------------------------------------------------------
(* Properties of the password reset *)

\* some user's row holds this reset token
Live(token, usersTable) ==
    \E id \in DOMAIN usersTable : usersTable[id].reset_token = token

\* the row of user id lets this token reset the password at time t
TokenOpens(token, id, usersTable, t) ==
    /\ token # 0
    /\ usersTable[id].reset_token = token
    /\ t < usersTable[id].reset_token_expiry

\* a reset_password changes a row only of a user whose stored token is the
\* one given and has not expired, and it clears that row's token and expiry
ResetOnlyWithStoredToken ==
    lastReq'.route = "reset_password" /\ users' # users =>
        /\ resp'.status = 200
        /\ DOMAIN users' = DOMAIN users
        /\ \E id \in DOMAIN users :
              /\ TokenOpens(lastReq'.param, id, users, now)
              /\ users'[id].reset_token = 0
              /\ users'[id].reset_token_expiry = 0
              /\ users'[id].password =
                     hash_password(lastReq'.password, "saltA", bcryptTruncates).value
              /\ \A other \in DOMAIN users \ {id} : users'[other] = users[other]

\* a password changes by a reset_password only
PasswordChangesByResetOnly ==
    \A id \in DOMAIN users \cap DOMAIN users' :
        users'[id].password # users[id].password =>
            lastReq'.route = "reset_password" /\ TokenOpens(lastReq'.param, id, users, now)

\* a forgot_password stores a token no row has held, which expires 24 hours
\* later, and with that the token the row held opens nothing
ForgotStoresFreshToken ==
    lastReq'.route = "forgot_password" /\ users' # users =>
        \E id \in DOMAIN users :
            /\ users[id].email = lastReq'.email
            /\ users'[id].reset_token \notin 0..uuids
            /\ users'[id].reset_token_expiry = now + 24 * 3600 * TicksPerSecond
            /\ users[id].reset_token # 0 => ~Live(users[id].reset_token, users')
            /\ \A other \in DOMAIN users \ {id} : users'[other] = users[other]

\* a token that was handed out and that no row holds is never held again
SpentStaysSpent ==
    \A token \in 1..uuids : ~Live(token, users) => ~Live(token, users')

\* a reset_password with a token that was handed out and that no row holds
\* any more: a reset has used it, or a newer forgot_password replaced it
ResetWithSpentToken ==
    /\ Answered
    /\ lastReq'.route = "reset_password"
    /\ lastReq'.param \in 1..uuids
    /\ ~Live(lastReq'.param, users)

SpentTokenAnswersInvalid ==
    ResetWithSpentToken =>
        resp'.message = "Invalid or expired token" /\ users' = users

\* the answers of validate_password(password, confirm_password)
PasswordErrors ==
    {"Password is required", "Password must be at least 8 characters long",
     "Passwords do not match"}

SpentTokenRejected ==
    ResetWithSpentToken =>
        /\ resp'.status = 400
        /\ resp'.message \in PasswordErrors \cup {"Invalid or expired token"}
        /\ resp'.message \in PasswordErrors <=>
              \/ ~validate_password(lastReq'.password)
              \/ resp'.message = "Passwords do not match"
        /\ users' = users

(* C23: reset_password changes a password only with the token the user's   *)
(* row holds and before its expiry, 24 hours after the forgot_password     *)
(* that stored it; a successful reset clears token and expiry, so that any *)
(* later reset_password with the same token answers 'Invalid or expired    *)
(* token' and changes nothing; a newer forgot_password invalidates the     *)
(* older token.                                                            *)
C23_ResetTokenSingleUse ==
    /\ [][ResetOnlyWithStoredToken /\ PasswordChangesByResetOnly]_vars
    /\ [][ForgotStoresFreshToken /\ SpentStaysSpent]_vars
    /\ [][SpentTokenAnswersInvalid]_vars

(* C23, amended: as above, but a later reset_password with the same token  *)
(* is answered 400 with the error of validate_password when its password   *)
(* pair does not pass validation, which is checked before the token, and   *)
(* 'Invalid or expired token' otherwise; either way it changes nothing.    *)
C23_ResetTokenSingleUseValidated ==
    /\ [][ResetOnlyWithStoredToken /\ PasswordChangesByResetOnly]_vars
    /\ [][ForgotStoresFreshToken /\ SpentStaysSpent]_vars
    /\ [][SpentTokenRejected]_vars

\* the one token handed out has reset the password of user 1, and the same
\* token is presented again
C23_Witness ==
    /\ uuids = 1
    /\ users[1].password = BcryptHash("saltA", Password2)
    /\ users[1].reset_token = 0
    /\ lastReq.route = "reset_password"
    /\ lastReq.param = 1
    /\ resp.message = "Invalid or expired token"

\* forgot_password answers a request that names a well-formed email of an
\* account
ForgotOfRegistered ==
    /\ lastReq'.route = "forgot_password"
    /\ Answered \/ users' # users
    /\ validate_email(lastReq'.email)
    /\ EmailTaken(lastReq'.email, users)

\* what the same request is answered when no account has the email
AnswerToUnregistered ==
    forgot_password(lastReq'.email, WithoutEmail(users, lastReq'.email),
                    uuids, flaskEnv, now).resp

(* C24: forgot_password answers a request with a well-formed email with    *)
(* the same response whether or not an account with that email exists.     *)
C24_ForgotDoesNotDistinguish ==
    [][ForgotOfRegistered => resp' = AnswerToUnregistered]_vars

----------------------------------------------------------------------------
(* Properties of update_user *)

\* update_user answers a request in this step
UpdateAnswered ==
    /\ lastReq'.route = "update_user"
    /\ Answered \/ users' # users

\* a verified user asks with her own token to change her email to another,
\* well-formed address
EmailChangeAsked ==
    /\ UpdateAnswered
    /\ lastReq'.tokenError = ""
    /\ lastReq'.subject = lastReq'.param
    /\ lastReq'.param \in DOMAIN users
    /\ users[lastReq'.param].is_verified
    /\ "email" \in lastReq'.data.keys
    /\ validate_email(lastReq'.data.email)
    /\ lastReq'.data.email # users[lastReq'.param].email

UnusedEmailStored ==
    EmailChangeAsked /\ ~EmailTaken(lastReq'.data.email, users) =>
        /\ users'[lastReq'.param].email = lastReq'.data.email
        /\ ~users'[lastReq'.param].is_verified

UsedEmailAnswered409 ==
    EmailChangeAsked /\ EmailTaken(lastReq'.data.email, users) =>
        /\ resp'.status = 409
        /\ users'[lastReq'.param].email = users[lastReq'.param].email

(* C25: when update_user changes a user's email to a different, valid and  *)
(* unused address, the email is stored and is_verified becomes False; an   *)
(* update to an email that another user has answers 409 and leaves the     *)
(* email as it is.                                                         *)
C25_EmailChangeUnverifies ==
    [][UnusedEmailStored /\ UsedEmailAnswered409]_vars

\* an update_user that answers with an error leaves the users table as it is
ErrorPersistsNothing ==
    UpdateAnswered /\ resp'.status # 200 => users' = users

\* the stored hash changes only for the user of the request, whose
\* current_password verifies against it and whose new password is valid
PasswordChangeNeedsCurrent ==
    \A id \in DOMAIN users \cap DOMAIN users' :
        users'[id].password # users[id].password =>
            /\ UpdateAnswered
            /\ lastReq'.param = id
            /\ resp'.status = 200
            /\ {"password", "current_password"} \subseteq lastReq'.data.keys
            /\ verify_password(lastReq'.data.current_password, users[id].password,
                               bcryptTruncates).value
            /\ validate_password(lastReq'.data.password)
            /\ "confirm_password" \in lastReq'.data.keys =>
                  lastReq'.data.confirm_password = lastReq'.data.password

(* C26: whenever update_user answers with an error, none of the fields the *)
(* request names is persisted; the stored password hash changes only when  *)
(* current_password verifies against the stored hash and the new password  *)
(* passes validation.                                                      *)
C26_UpdateAllOrNothing ==
    [][ErrorPersistsNothing /\ PasswordChangeNeedsCurrent]_vars

\* update_user ran for a request that names a name and an invalid gender,
\* and the name of the row is the one it had
C26_Witness ==
    /\ lastReq.route = "update_user"
    /\ resp.handler
    /\ resp.message = "Invalid gender value"
    /\ "name" \in lastReq.data.keys
    /\ lastReq.data.name # "Name"
    /\ users[lastReq.param].name = "Name"

====
